---------------------------- MODULE Spec2Model ----------------------------
(***************************************************************************)
(* Impact calculators of scripts/compute_impacts.py and the record         *)
(* formatters of scripts/db_schema.py.                                     *)
(*                                                                         *)
(* One reform is processed over one dataset: main() runs the calculators   *)
(* in a fixed order and an exception ends the reform.  Floating-point      *)
(* numbers are modelled as exact fractions <<n, d>> with d >= 0; d = 0     *)
(* encodes the IEEE special values (<<0,0>> NaN, <<1,0>> +inf,             *)
(* <<-1,0>> -inf).                                                         *)
(***************************************************************************)
EXTENDS Integers, Sequences, FiniteSets, TLC

VARIABLES
    households,          \* household-level table of the baseline/reform pair
    persons,             \* person-level table of the baseline/reform pair
    tax_units,           \* tax-unit-level table of the baseline/reform pair
    weight_den,          \* the weight columns hold multiples of 1 / weight_den
    state,               \* reform["state"]
    pc,                  \* position of main() in the processing of the reform
    budgetary_impact,    \* result of compute_budgetary_impact
    income_change,       \* compute_winners_losers: per-household relative change
    relative_change,     \* compute_district_impacts: per-household relative change
    poverty_impact,      \* result of compute_poverty_impact(child_only=False)
    child_poverty_impact,\* result of compute_poverty_impact(child_only=True)
    winners_losers,      \* result of compute_winners_losers
    decile_impact,       \* result of compute_decile_impact
    district_impacts,    \* result of compute_district_impacts
    district_locals,     \* unrounded per-district values of compute_district_impacts
    impacts,             \* the impacts dict that main() assembles
    args,                \* main(): the parsed command line
    supabase,            \* main(): the result of get_supabase_client()
    reforms,             \* main(): the result of load_reforms_from_db
    reform_impacts,      \* Supabase table reform_impacts: id -> row
    research,            \* Supabase table research: id -> status
    results,             \* main(): the status of every reform handled so far
    main_pc,             \* main(): position, loop index and locals
    calls,               \* history: the calls main() made, with their outcome
    exit_code,           \* the value main() returned
    call_log,            \* history: the write_to_supabase calls made on the table
    writers,             \* concurrent write_to_supabase calls: position and locals of each
    legiscan,            \* LegiScan: the sessions with their datasets and bills
    processed_bills,     \* Supabase table processed_bills: bill id -> status
    dataset_hashes,      \* Supabase table dataset_hashes: session id -> hash
    monitor,             \* legiscan_monitor main(): position, arguments and locals
    effects,             \* history: writes, issues and subprocesses of the current run
    last_run             \* history: what the run before the current one returned

calcVars == <<households, persons, tax_units, weight_den, state, pc, budgetary_impact,
              income_change, relative_change, poverty_impact, child_poverty_impact,
              winners_losers, decile_impact, district_impacts, district_locals, impacts>>

mainVars == <<args, supabase, reforms, research, results, main_pc, calls, exit_code>>

dbVars == <<reform_impacts, call_log>>

monVars == <<legiscan, processed_bills, dataset_hashes, monitor, effects, last_run>>

extVars == <<writers, monVars>>

vars == <<calcVars, mainVars, dbVars, extVars>>

(***************************************************************************)
(* Bounds of the model.                                                    *)
(***************************************************************************)
MaxHH == 2
MaxP == 2

(***************************************************************************)
(* Floating-point values as exact fractions.                               *)
(***************************************************************************)
Abs(x) == IF x < 0 THEN -x ELSE x

Sign(x) == IF x < 0 THEN -1 ELSE IF x > 0 THEN 1 ELSE 0

RECURSIVE GCD(_, _)
GCD(a, b) == IF b = 0 THEN a ELSE GCD(b, a % b)

\* canonical form of the fraction n/d (d may be negative or zero)
Frac(n, d) ==
    IF d = 0 THEN <<Sign(n), 0>>
    ELSE LET g == GCD(Abs(n), Abs(d))
         IN  <<Sign(d) * (n \div g), Abs(d) \div g>>

FromInt(x) == <<x, 1>>
NaN == <<0, 0>>
PosInf == <<1, 0>>
NegInf == <<-1, 0>>
Zero == <<0, 1>>

IsNaN(a) == a = NaN
IsFinite(a) == a[2] > 0

\* a < b, a <= b, a > b as IEEE comparisons (false when an operand is NaN)
RLt(a, b) ==
    /\ ~IsNaN(a) /\ ~IsNaN(b)
    /\ IF a[2] = 0 /\ b[2] = 0 THEN a[1] < b[1] ELSE a[1] * b[2] < b[1] * a[2]

RLe(a, b) ==
    /\ ~IsNaN(a) /\ ~IsNaN(b)
    /\ IF a[2] = 0 /\ b[2] = 0 THEN a[1] <= b[1] ELSE a[1] * b[2] <= b[1] * a[2]

RGt(a, b) == RLt(b, a)

\* arithmetic on finite operands; a NaN operand gives NaN
RAdd(a, b) ==
    IF IsFinite(a) /\ IsFinite(b) THEN Frac(a[1] * b[2] + b[1] * a[2], a[2] * b[2])
    ELSE IF IsNaN(a) \/ IsNaN(b) THEN NaN
    ELSE IF ~IsFinite(a) /\ ~IsFinite(b) /\ a # b THEN NaN
    ELSE IF ~IsFinite(a) THEN a ELSE b

RNeg(a) == <<-a[1], a[2]>>

RSub(a, b) == RAdd(a, RNeg(b))

RMul(a, b) ==
    IF IsFinite(a) /\ IsFinite(b) THEN Frac(a[1] * b[1], a[2] * b[2])
    ELSE IF IsNaN(a) \/ IsNaN(b) THEN NaN
    ELSE <<Sign(a[1]) * Sign(b[1]), 0>>

\* numpy / float64 division: x/0 is +-inf, 0/0 is NaN
RDiv(a, b) ==
    IF IsFinite(a) /\ IsFinite(b) THEN Frac(a[1] * b[2], a[2] * b[1])
    ELSE IF IsNaN(a) \/ IsNaN(b) THEN NaN
    ELSE IF ~IsFinite(a) /\ ~IsFinite(b) THEN NaN
    ELSE IF ~IsFinite(a) THEN <<a[1] * (IF b[1] < 0 THEN -1 ELSE 1), 0>>
    ELSE Zero

RECURSIVE SumF(_, _)
SumF(f, n) == IF n = 0 THEN 0 ELSE f[n] + SumF(f, n - 1)

RECURSIVE RSumSeq(_, _)
RSumSeq(s, n) == IF n = 0 THEN Zero ELSE RAdd(RSumSeq(s, n - 1), s[n])


Max(a, b) == IF a >= b THEN a ELSE b

(***************************************************************************)
(* Program constants.                                                      *)
(***************************************************************************)
\* STATE_FIPS and STATE_DISTRICTS, restricted to the states of the model
STATE_FIPS == [s \in {"RI", "DC"} |-> IF s = "RI" THEN 44 ELSE 11]

STATE_DISTRICTS == [s \in {"RI", "DC"} |-> IF s = "RI" THEN 2 ELSE 0]

GAIN_LESS_5PCT_THRESHOLD == Frac(1, 1000)

NO_CHANGE_THRESHOLD == Frac(-1, 1000)

BOUNDS == <<NegInf, Frac(-5, 100), Frac(-1, 1000), Frac(1, 1000), Frac(5, 100), PosInf>>

LABELS == <<"Lose more than 5%", "Lose less than 5%", "No change",
            "Gain less than 5%", "Gain more than 5%">>

\* range(1, 11)
Deciles == 1 .. 10

NumDeciles == 10

ChildAge == 18

\* str(k) for the integers the model converts
Str(k) ==
    IF k < 0 THEN "-" \o <<"0", "1", "2", "3", "4", "5", "6", "7", "8", "9", "10">>[(-k) + 1]
    ELSE <<"0", "1", "2", "3", "4", "5", "6", "7", "8", "9", "10">>[k + 1]

(***************************************************************************)
(* Input tables: what baseline.calculate / reformed.calculate return.      *)
(***************************************************************************)
\* a household row; the reform simulation carries its own copy of the weight
HHRow(b, r, w, n, d, g) ==
    [baseline_income |-> b, reform_income |-> r, household_weight |-> w,
     reform_household_weight |-> w,
     household_count_people |-> n, household_income_decile |-> d, cd_geoid |-> g]

PRow(bp, rp, w, a, g) ==
    [baseline_poverty |-> bp, reform_poverty |-> rp, person_weight |-> w,
     reform_person_weight |-> w,
     age |-> a, cd_geoid |-> g]

\* a tax-unit row: state_income_tax of both simulations and tax_unit_weight
TRow(bt, rt, w) ==
    [baseline_tax |-> bt, reform_tax |-> rt, tax_unit_weight |-> w,
     reform_tax_unit_weight |-> w]

\* (baseline income, reform income) of a household
IncomePairs ==
    {<<100, 105>>, <<1000, 950>>, <<1000, 1025>>, <<1000, 975>>,
     <<2000, 2001>>, <<2000, 1999>>, <<1000, 0>>, <<1000, -1>>, <<0, 0>>, <<0, 50>>}

EdgeIncomePairs == {<<1000, 950>>, <<1000, 975>>}

\* (weight, people, decile) of a household
MainPlacements == {<<1, 1, 1>>}

TopPlacements == {<<1, 1, 10>>}

EdgePlacements == {<<1, 2, 1>>, <<0, 1, 1>>, <<1, 1, 0>>, <<1, 1, -1>>}

GeoIds == {0, 4401, 4402, 4403}

HHRows ==
    {HHRow(p[1], p[2], q[1], q[2], q[3], 4401) : p \in IncomePairs, q \in MainPlacements}
    \cup {HHRow(p[1], p[2], q[1], q[2], q[3], 4401) : p \in EdgeIncomePairs, q \in TopPlacements}
    \cup {HHRow(1000, 950, q[1], q[2], q[3], 4401) : q \in EdgePlacements}

GeoHHRows == {HHRow(p[1], p[2], 1, 1, 1, g) : p \in {<<100, 105>>, <<1000, 950>>}, g \in GeoIds}

PRows ==
    {PRow(bp, rp, 1, a, 4401) : bp \in {0, 1}, rp \in {0, 1}, a \in {17, 18}}
    \cup {PRow(1, 0, 0, a, 4401) : a \in {17, 18}}
    \cup {PRow(1, 0, 1, 17, 4402), PRow(1, 1, 1, 18, 4402)}

\* tax units: (reform tax, weight) with a baseline tax of 100
TRows == {TRow(100, rt, w) : rt \in {90, 120}, w \in {1, 3}}

\* rows whose reform simulation carries another weight than the baseline
ReformWeights == {1, 2}

ReweightedHHRows ==
    {[HHRow(1000, r, 1, 1, 1, 4401) EXCEPT !.reform_household_weight = rw] :
        r \in {950, 1050}, rw \in ReformWeights}

ReweightedPRows ==
    {[PRow(bp, rp, 1, 17, 4401) EXCEPT !.reform_person_weight = rw] :
        bp \in {1}, rp \in {0, 1}, rw \in ReformWeights}

\* the weight columns are read in units of 1 / weight_den
WeightDens == {1, 2}

SeqsUpTo(S, n) == UNION {[1 .. k -> S] : k \in 1 .. n}

\* the persons of a household table: one adult and one child per household
PersonsOf(hh) ==
    [i \in 1 .. 2 * Len(hh) |->
        LET h == hh[(i + 1) \div 2]
        IN  [PRow(0, 0, h.household_weight, IF i % 2 = 1 THEN 40 ELSE 10, h.cd_geoid)
                EXCEPT !.reform_person_weight = h.reform_household_weight]]

\* the households of a person table: one single-person household per person
HouseholdsOf(pp) ==
    [i \in 1 .. Len(pp) |->
        [HHRow(1000, 1000, pp[i].person_weight, 1, 1, pp[i].cd_geoid)
            EXCEPT !.reform_household_weight = pp[i].reform_person_weight]]

\* the tax units of a household table: one tax unit per household
TaxUnitsOf(hh) ==
    [i \in 1 .. Len(hh) |->
        [TRow(100, 90, hh[i].household_weight)
            EXCEPT !.reform_tax_unit_weight = hh[i].reform_household_weight]]

\* the households of a tax-unit table: one household per tax unit
HouseholdsOfTaxUnits(tu) ==
    [i \in 1 .. Len(tu) |->
        [HHRow(1000, 1000, tu[i].tax_unit_weight, 1, 1, 4401)
            EXCEPT !.reform_household_weight = tu[i].reform_tax_unit_weight]]

(***************************************************************************)
(* microdf MicroSeries reductions over the rows selected by a mask         *)
(* (a set of row indices).                                                 *)
(***************************************************************************)
\* MicroSeries.sum(): sum of value * weight
WSum(n, val, wt, mask) ==
    SumF([i \in 1 .. n |-> IF i \in mask THEN val[i] * wt[i] ELSE 0], n)

\* MicroSeries.count(): sum of weights
WCount(n, wt, mask) ==
    SumF([i \in 1 .. n |-> IF i \in mask THEN wt[i] ELSE 0], n)

\* MicroSeries.mean(): the weighted mean.  With a zero weight total (or no
\* row) the library either raises ZeroDivisionError or returns NaN,
\* depending on its version: zero_raises chooses between the two.
MSMean(n, val, wt, mask, zero_raises) ==
    IF WCount(n, wt, mask) = 0
    THEN [raised |-> zero_raises, value |-> NaN]
    ELSE [raised |-> FALSE, value |-> Frac(WSum(n, val, wt, mask), WCount(n, wt, mask))]

(***************************************************************************)
(* db_schema.py formatters.                                                *)
(***************************************************************************)
\* net_cost is not passed by compute_budgetary_impact
format_budgetary_impact(state_revenue_impact, households_count) ==
    [stateRevenueImpact |-> state_revenue_impact,
     netCost |-> state_revenue_impact,
     households |-> households_count]

\* format_poverty_impact dividing by the baseline rate without the guard
format_poverty_impact_unguarded(baseline_rate, reform_rate) ==
    [baselineRate |-> baseline_rate, reformRate |-> reform_rate,
     change |-> RSub(reform_rate, baseline_rate),
     percentChange |-> RMul(RDiv(RSub(reform_rate, baseline_rate), baseline_rate),
                            FromInt(100))]

format_poverty_impact(baseline_rate, reform_rate) ==
    LET change == RSub(reform_rate, baseline_rate)
        percent_change ==
            IF RGt(baseline_rate, Zero)
            THEN RMul(RDiv(RSub(reform_rate, baseline_rate), baseline_rate), FromInt(100))
            ELSE Zero
    IN  [baselineRate |-> baseline_rate, reformRate |-> reform_rate,
         change |-> change, percentChange |-> percent_change]

format_winners_losers(gain_more_5pct, gain_less_5pct, no_change, lose_less_5pct, lose_more_5pct, decile_breakdown) ==
    LET all_row == [gainMore5Pct |-> gain_more_5pct, gainLess5Pct |-> gain_less_5pct,
                    noChange |-> no_change, loseLess5Pct |-> lose_less_5pct,
                    loseMore5Pct |-> lose_more_5pct]
        deciles == [k \in {Str(i + 1) : i \in 0 .. 9} |->
                      LET i == CHOOSE j \in 0 .. 9 : Str(j + 1) = k
                      IN  [gainMore5Pct |-> decile_breakdown.gain_more_5pct[i + 1],
                           gainLess5Pct |-> decile_breakdown.gain_less_5pct[i + 1],
                           noChange |-> decile_breakdown.no_change[i + 1],
                           loseLess5Pct |-> decile_breakdown.lose_less_5pct[i + 1],
                           loseMore5Pct |-> decile_breakdown.lose_more_5pct[i + 1]]]
    IN  [gainMore5Pct |-> gain_more_5pct, gainLess5Pct |-> gain_less_5pct,
         noChange |-> no_change, loseLess5Pct |-> lose_less_5pct,
         loseMore5Pct |-> lose_more_5pct,
         intraDecile |-> [all |-> all_row, deciles |-> deciles]]

format_decile_impact(relative, average) ==
    [relative |-> [k \in {Str(d) : d \in DOMAIN relative} |->
                      relative[CHOOSE d \in DOMAIN relative : Str(d) = k]],
     average |-> [k \in {Str(d) : d \in DOMAIN average} |->
                      average[CHOOSE d \in DOMAIN average : Str(d) = k]]]


\* round(x, ndigits) on a float: round half to even at 10^-ndigits
Pow10(k) == IF k = 0 THEN 1 ELSE IF k = 1 THEN 10 ELSE 100

Round(x, ndigits) ==
    IF ~IsFinite(x) THEN x
    ELSE LET num == x[1] * Pow10(ndigits)
             q == num \div x[2]
             twice == 2 * (num % x[2])
             up == twice > x[2] \/ (twice = x[2] /\ q % 2 = 1)
         IN  Frac(IF up THEN q + 1 ELSE q, Pow10(ndigits))

format_district_impact(district_name, avg_benefit, households_affected, total_benefit, winners_share, losers_share, poverty_pct_change, child_poverty_pct_change) ==
    [districtName |-> district_name,
     avgBenefit |-> Round(avg_benefit, 0),
     householdsAffected |-> households_affected,
     totalBenefit |-> Round(total_benefit, 0),
     winnersShare |-> Round(winners_share, 2),
     losersShare |-> Round(losers_share, 2),
     povertyPctChange |-> Round(poverty_pct_change, 2),
     childPovertyPctChange |-> Round(child_poverty_pct_change, 2)]

(***************************************************************************)
(* compute_budgetary_impact                                                *)
(***************************************************************************)
\* int(x) with the value rounded to the nearest integer
int_nearest(x) == (2 * x[1] + x[2]) \div (2 * x[2])

\* int(x) of a finite float: truncation toward zero
int(x) == IF x[1] >= 0 THEN x[1] \div x[2] ELSE -((-x[1]) \div x[2])

\* each simulation's revenue is summed with that simulation's own weights
compute_budgetary_impact(hh, tu, den) ==
    LET n == Len(tu)
        bt == [i \in 1 .. Len(tu) |-> tu[i].baseline_tax]
        rt == [i \in 1 .. Len(tu) |-> tu[i].reform_tax]
        w == [i \in 1 .. Len(tu) |-> tu[i].tax_unit_weight]
        rw == [i \in 1 .. Len(tu) |-> tu[i].reform_tax_unit_weight]
        hw == [j \in 1 .. Len(hh) |-> hh[j].household_weight]
        baseline_revenue == Frac(WSum(n, bt, w, 1 .. n), den)
        reform_revenue == Frac(WSum(n, rt, rw, 1 .. n), den)
        revenue_change == RSub(reform_revenue, baseline_revenue)
        total_households == int(Frac(WCount(Len(hh), hw, 1 .. Len(hh)), den))
    IN  format_budgetary_impact(revenue_change, total_households)

(***************************************************************************)
(* compute_poverty_impact                                                  *)
(***************************************************************************)
\* reformed.calculate returns a series weighted by the reform simulation
compute_poverty_impact(pp, child_only, zero_raises) ==
    LET n == Len(pp)
        bp == [i \in 1 .. Len(pp) |-> pp[i].baseline_poverty]
        rp == [i \in 1 .. Len(pp) |-> pp[i].reform_poverty]
        w == [i \in 1 .. Len(pp) |-> pp[i].person_weight]
        rw == [i \in 1 .. Len(pp) |-> pp[i].reform_person_weight]
        mask == IF child_only THEN {i \in 1 .. n : pp[i].age < ChildAge} ELSE 1 .. n
        baseline_rate == MSMean(n, bp, w, mask, zero_raises)
        reform_rate == MSMean(n, rp, rw, mask, zero_raises)
    IN  [raised |-> baseline_rate.raised \/ reform_rate.raised,
         value |-> format_poverty_impact(baseline_rate.value, reform_rate.value)]

(***************************************************************************)
(* compute_winners_losers                                                  *)
(***************************************************************************)
capped_baseline_income(b) == Max(b, 1)

\* the relative change taken from the raw difference only
WL_income_change_raw_difference(b, r) == Frac(r - b, capped_baseline_income(b))

\* the relative change between the floored incomes
WL_income_change_floored(b, r) ==
    Frac(Max(r, 1) - capped_baseline_income(b), capped_baseline_income(b))

\* lines 364-368: the relative change of one household
WL_income_change(b, r) ==
    LET absolute_change == r - b
        capped_reform_income == Max(r, 1) + absolute_change
    IN  Frac(capped_reform_income - capped_baseline_income(b), capped_baseline_income(b))

\* a bucket test that excludes both bounds
in_group_exclusive(x, lower, upper) == RGt(x, lower) /\ RLt(x, upper)

\* a bucket test that includes the lower bound instead of the upper one
in_group_lower_inclusive(x, lower, upper) == RLe(lower, x) /\ RLt(x, upper)

\* line 385: (income_change > lower) & (income_change <= upper)
in_group(x, lower, upper) == RGt(x, lower) /\ RLe(x, upper)

\* the proportion without the guard for a decile without people
people_in_proportion_unguarded(hh, chg, i, lower, upper) ==
    LET n == Len(hh)
        people == [j \in 1 .. Len(hh) |-> hh[j].household_count_people]
        w == [j \in 1 .. Len(hh) |-> hh[j].household_weight]
        in_decile == {j \in 1 .. n : hh[j].household_income_decile = i}
        in_both == {j \in in_decile : in_group(chg[j], lower, upper)}
    IN  Frac(WSum(n, people, w, in_both), WSum(n, people, w, in_decile))

\* lines 388-394: the proportion of the people of decile i that are in a bucket
people_in_proportion(hh, chg, i, lower, upper) ==
    LET n == Len(hh)
        people == [j \in 1 .. Len(hh) |-> hh[j].household_count_people]
        w == [j \in 1 .. Len(hh) |-> hh[j].household_weight]
        in_decile == {j \in 1 .. n : hh[j].household_income_decile = i}
        in_both == {j \in in_decile : in_group(chg[j], lower, upper)}
        people_in_both == WSum(n, people, w, in_both)
        people_in_decile == WSum(n, people, w, in_decile)
    IN  IF people_in_decile = 0 /\ people_in_both = 0 THEN Zero
        ELSE Frac(people_in_both, people_in_decile)

\* the mean over the deciles that have a non-zero proportion only
all_outcome_skip_empty(proportions) ==
    RDiv(RSumSeq(proportions, Len(proportions)),
         FromInt(Max(1, Cardinality({i \in DOMAIN proportions : proportions[i] # Zero}))))

\* line 398: sum(outcome_groups[label]) / 10
all_outcome(proportions) == RDiv(RSumSeq(proportions, Len(proportions)), FromInt(NumDeciles))

\* lines 381-414: the loop over zip(BOUNDS[:-1], BOUNDS[1:], LABELS)
compute_winners_losers(hh, chg) ==
    LET index == [label \in {LABELS[k] : k \in 1 .. 5} |-> CHOOSE k \in 1 .. 5 : LABELS[k] = label]
        outcome_groups ==
            [label \in DOMAIN index |->
                [i \in Deciles |->
                    people_in_proportion(hh, chg, i, BOUNDS[index[label]],
                                         BOUNDS[index[label] + 1])]]
        all_outcomes == [label \in DOMAIN index |-> all_outcome(outcome_groups[label])]
    IN  format_winners_losers(all_outcomes["Gain more than 5%"],
                              all_outcomes["Gain less than 5%"],
                              all_outcomes["No change"],
                              all_outcomes["Lose less than 5%"],
                              all_outcomes["Lose more than 5%"],
                              [gain_more_5pct |-> outcome_groups["Gain more than 5%"],
                               gain_less_5pct |-> outcome_groups["Gain less than 5%"],
                               no_change |-> outcome_groups["No change"],
                               lose_less_5pct |-> outcome_groups["Lose less than 5%"],
                               lose_more_5pct |-> outcome_groups["Lose more than 5%"]])

(***************************************************************************)
(* compute_decile_impact                                                   *)
(***************************************************************************)
\* the decile breakdown without the filter on the decile
compute_decile_impact_unfiltered(hh) ==
    LET n == Len(hh)
        w == [j \in 1 .. Len(hh) |-> hh[j].household_weight]
        rw == [j \in 1 .. Len(hh) |-> hh[j].reform_household_weight]
        b == [j \in 1 .. Len(hh) |-> hh[j].baseline_income]
        change == [j \in 1 .. Len(hh) |-> hh[j].reform_income - hh[j].baseline_income]
        keys == {hh[j].household_income_decile : j \in 1 .. n}
        grp(d) == {j \in 1 .. n : hh[j].household_income_decile = d}
        rel == [d \in keys |-> Frac(WSum(n, change, rw, grp(d)), WSum(n, b, w, grp(d)))]
        avg == [d \in keys |-> Frac(WSum(n, change, rw, grp(d)), WCount(n, w, grp(d)))]
    IN  format_decile_impact(rel, avg)

\* income_change = reform - baseline carries the weights of its left operand
compute_decile_impact(hh) ==
    LET n == Len(hh)
        w == [j \in 1 .. Len(hh) |-> hh[j].household_weight]
        rw == [j \in 1 .. Len(hh) |-> hh[j].reform_household_weight]
        b == [j \in 1 .. Len(hh) |-> hh[j].baseline_income]
        change == [j \in 1 .. Len(hh) |-> hh[j].reform_income - hh[j].baseline_income]
        filtered == {j \in 1 .. n : hh[j].household_income_decile >= 0}
        keys == {hh[j].household_income_decile : j \in filtered}
        grp(d) == {j \in filtered : hh[j].household_income_decile = d}
        rel == [d \in keys |-> Frac(WSum(n, change, rw, grp(d)), WSum(n, b, w, grp(d)))]
        avg == [d \in keys |-> Frac(WSum(n, change, rw, grp(d)), WCount(n, w, grp(d)))]
    IN  format_decile_impact(rel, avg)


(***************************************************************************)
(* compute_district_impacts                                                *)
(***************************************************************************)
\* the relative change divided by the baseline income itself
district_relative_change_uncapped(b, r) ==
    LET absolute_change == r - b
        capped_reform == Max(r, 1) + absolute_change
    IN  Frac(capped_reform - Max(b, 1), b)

\* lines 502-506: the relative change of one household
district_relative_change(b, r) ==
    LET absolute_change == r - b
        capped_baseline == Max(b, 1)
        capped_reform == Max(r, 1) + absolute_change
    IN  Frac(capped_reform - capped_baseline, capped_baseline)

\* lines 541-557: the proportion of the people of a decile of the district
\* that are in the row set sel; zero when the decile has no row or no people
district_proportion(hh, in_district, decile, sel) ==
    LET n == Len(hh)
        people == [j \in 1 .. Len(hh) |-> hh[j].household_count_people]
        w == [j \in 1 .. Len(hh) |-> hh[j].household_weight]
        in_decile == {j \in in_district : hh[j].household_income_decile = decile}
        people_in_decile == WSum(n, people, w, in_decile)
        selected_in_decile == WSum(n, people, w, in_decile \cap sel)
    IN  IF in_decile = {} THEN Zero
        ELSE IF people_in_decile = 0 /\ selected_in_decile = 0 THEN Zero
        ELSE Frac(selected_in_decile, people_in_decile)

\* lines 573 and 583
district_pct_change(poverty_baseline, poverty_reform) ==
    IF RGt(poverty_baseline, Zero)
    THEN RMul(RDiv(RSub(poverty_reform, poverty_baseline), poverty_baseline), FromInt(100))
    ELSE Zero

\* lines 510-601: one iteration of the loop over the districts
district_entry(hh, pp, chg, den, st, district_num, zero_raises) ==
    LET n == Len(hh)
        m == Len(pp)
        district_geoid == STATE_FIPS[st] * 100 + district_num
        in_district == {j \in 1 .. n : hh[j].cd_geoid = district_geoid}
        w == [j \in 1 .. Len(hh) |-> hh[j].household_weight]
        b == [j \in 1 .. Len(hh) |-> hh[j].baseline_income]
        r == [j \in 1 .. Len(hh) |-> hh[j].reform_income]
        total_benefit == Frac(WSum(n, r, w, in_district) - WSum(n, b, w, in_district), den)
        total_households == Frac(WCount(n, w, in_district), den)
        avg_benefit == IF RGt(total_households, Zero)
                       THEN RDiv(total_benefit, total_households)
                       ELSE Zero
        is_winner == {j \in in_district : RGt(chg[j], GAIN_LESS_5PCT_THRESHOLD)}
        is_loser == {j \in in_district : RLe(chg[j], NO_CHANGE_THRESHOLD)}
        winner_proportions == [d \in Deciles |-> district_proportion(hh, in_district, d, is_winner)]
        loser_proportions == [d \in Deciles |-> district_proportion(hh, in_district, d, is_loser)]
        winners_share == RDiv(RSumSeq(winner_proportions, NumDeciles), FromInt(10))
        losers_share == RDiv(RSumSeq(loser_proportions, NumDeciles), FromInt(10))
        in_district_person == {i \in 1 .. m : pp[i].cd_geoid = district_geoid}
        pw == [i \in 1 .. Len(pp) |-> pp[i].person_weight]
        bpov == [i \in 1 .. Len(pp) |-> pp[i].baseline_poverty]
        rpov == [i \in 1 .. Len(pp) |-> pp[i].reform_poverty]
        has_weight == WCount(m, pw, in_district_person) > 0
        bp == MSMean(m, bpov, pw, in_district_person, zero_raises)
        rp == MSMean(m, rpov, pw, in_district_person, zero_raises)
        child_mask == {i \in in_district_person : pp[i].age < ChildAge}
        has_child == has_weight /\ child_mask # {}
        bp_child == MSMean(m, bpov, pw, child_mask, zero_raises)
        rp_child == MSMean(m, rpov, pw, child_mask, zero_raises)
        poverty_pct_change == IF has_weight THEN district_pct_change(bp.value, rp.value)
                              ELSE Zero
        child_poverty_pct_change ==
            IF has_child THEN district_pct_change(bp_child.value, rp_child.value) ELSE Zero
    IN  [present |-> in_district # {},
         raised |-> in_district # {} /\ has_child /\ (bp_child.raised \/ rp_child.raised),
         record |-> format_district_impact(district_num, avg_benefit, int(total_households),
                                           total_benefit, winners_share, losers_share,
                                           poverty_pct_change, child_poverty_pct_change),
         locals |-> [winners_share |-> winners_share, losers_share |-> losers_share,
                     has_poverty |-> has_weight,
                     poverty_baseline |-> IF has_weight THEN bp.value ELSE NaN,
                     poverty_reform |-> IF has_weight THEN rp.value ELSE NaN,
                     poverty_pct_change |-> poverty_pct_change,
                     has_child_poverty |-> has_child,
                     child_poverty_baseline |-> IF has_child THEN bp_child.value ELSE NaN,
                     child_poverty_reform |-> IF has_child THEN rp_child.value ELSE NaN,
                     child_poverty_pct_change |-> child_poverty_pct_change]]

\* f"{state_upper}-{district_num}"
district_id(st, district_num) == st \o "-" \o Str(district_num)

\* lines 469-500: no early return with an empty result
district_data_available(hh, st) ==
    /\ st \in DOMAIN STATE_FIPS
    /\ STATE_DISTRICTS[st] # 0
    /\ {hh[j].cd_geoid : j \in 1 .. Len(hh)} # {0}

\* the district numbers with a household, without the upper limit
district_keys_unlimited(hh, st) ==
    IF ~district_data_available(hh, st) THEN {}
    ELSE {k \in 1 .. 9 :
             \E j \in 1 .. Len(hh) : hh[j].cd_geoid = STATE_FIPS[st] * 100 + k}

\* lines 510-515: the district numbers that get an entry
district_keys(hh, st) ==
    IF ~district_data_available(hh, st) THEN {}
    ELSE {k \in 1 .. STATE_DISTRICTS[st] :
             \E j \in 1 .. Len(hh) : hh[j].cd_geoid = STATE_FIPS[st] * 100 + k}

compute_district_impacts(hh, pp, chg, den, st, zero_raises) ==
    LET nums == district_keys(hh, st)
        entries == {[id |-> district_id(st, k),
                     entry |-> district_entry(hh, pp, chg, den, st, k, zero_raises)] : k \in nums}
        ids == {e.id : e \in entries}
        of(id) == (CHOOSE e \in entries : e.id = id).entry
    IN  [raised |-> \E e \in entries : e.entry.raised,
         impacts |-> [id \in ids |-> of(id).record],
         locals |-> [id \in ids |-> of(id).locals]]

(***************************************************************************)
(* main(): the processing of one reform, lines 854-916.                    *)
(***************************************************************************)
NoRecord == [computed |-> FALSE]

Computed(rec) == [computed |-> TRUE, value |-> rec]

\* the impacts dict with the districtImpacts key set unconditionally
assemble_impacts_always_districts(budgetary, poverty, child_poverty, winners, decile, districts) ==
    [computed |-> TRUE,
     computedAt |-> "now",
     budgetaryImpact |-> budgetary,
     povertyImpact |-> poverty,
     childPovertyImpact |-> child_poverty,
     winnersLosers |-> winners,
     decileImpact |-> decile,
     districtImpacts |-> districts]

\* lines 889-899: the impacts dict; the time stamp is abstracted
assemble_impacts(budgetary, poverty, child_poverty, winners, decile, districts) ==
    LET base == [computed |-> TRUE,
                 computedAt |-> "now",
                 budgetaryImpact |-> budgetary,
                 povertyImpact |-> poverty,
                 childPovertyImpact |-> child_poverty,
                 winnersLosers |-> winners,
                 decileImpact |-> decile]
    IN  IF DOMAIN districts # {}
        THEN [k \in DOMAIN base \cup {"districtImpacts"} |->
                 IF k = "districtImpacts" THEN districts ELSE base[k]]
        ELSE base

\* main() and the tables are not part of the processing of one dataset
MainIdle ==
    /\ args = <<>>
    /\ supabase = "client"
    /\ reforms = <<>>
    /\ research = <<>>
    /\ results = <<>>
    /\ main_pc = [at |-> "idle"]
    /\ calls = {}
    /\ exit_code = -1

TableIdle ==
    /\ reform_impacts = <<>>
    /\ call_log = <<>>

\* no run of the LegiScan monitor
MonitorIdle ==
    /\ legiscan = <<>>
    /\ processed_bills = <<>>
    /\ dataset_hashes = <<>>
    /\ monitor = [at |-> "idle"]
    /\ effects = {}
    /\ last_run = [mode |-> "none"]

\* no concurrent writer and no monitor
ExtIdle ==
    /\ writers = <<>>
    /\ MonitorIdle

InitDistributional ==
    /\ households \in SeqsUpTo(HHRows, MaxHH)
    /\ persons = PersonsOf(households)
    /\ tax_units = TaxUnitsOf(households)
    /\ weight_den = 1
    /\ state = "RI"

InitGeo ==
    /\ households \in SeqsUpTo(GeoHHRows, MaxHH)
    /\ persons = PersonsOf(households)
    /\ tax_units = TaxUnitsOf(households)
    /\ weight_den = 1
    /\ state \in {"RI", "DC", "PR"}

InitPersons ==
    /\ persons \in SeqsUpTo(PRows, MaxP)
    /\ households = HouseholdsOf(persons)
    /\ tax_units = TaxUnitsOf(households)
    /\ weight_den = 1
    /\ state = "RI"

\* fractional weights
InitBudget ==
    /\ tax_units \in SeqsUpTo(TRows, MaxHH)
    /\ households = HouseholdsOfTaxUnits(tax_units)
    /\ persons = PersonsOf(households)
    /\ weight_den \in WeightDens
    /\ state = "RI"

\* a reform simulation whose weights differ from the baseline's
InitReweighted ==
    /\ \/ /\ households \in SeqsUpTo(ReweightedHHRows, MaxHH)
          /\ persons = PersonsOf(households)
       \/ /\ persons \in SeqsUpTo(ReweightedPRows, MaxP)
          /\ households = HouseholdsOf(persons)
    /\ tax_units = TaxUnitsOf(households)
    /\ weight_den = 1
    /\ state = "RI"

Init ==
    /\ InitDistributional \/ InitGeo \/ InitPersons \/ InitBudget \/ InitReweighted
    /\ pc = "budgetary"
    /\ budgetary_impact = NoRecord
    /\ income_change = <<>>
    /\ relative_change = <<>>
    /\ poverty_impact = NoRecord
    /\ child_poverty_impact = NoRecord
    /\ winners_losers = NoRecord
    /\ decile_impact = NoRecord
    /\ district_impacts = NoRecord
    /\ district_locals = NoRecord
    /\ impacts = NoRecord
    /\ MainIdle
    /\ TableIdle
    /\ ExtIdle

\* line 867
ComputeBudgetaryImpact ==
    /\ pc = "budgetary"
    /\ UNCHANGED <<mainVars, dbVars, extVars>>
    /\ budgetary_impact' = Computed(compute_budgetary_impact(households, tax_units, weight_den))
    /\ pc' = "poverty"
    /\ UNCHANGED <<households, persons, tax_units, weight_den, state, income_change,
                   relative_change, poverty_impact, child_poverty_impact, winners_losers,
                   decile_impact, district_impacts, district_locals, impacts>>

\* line 872
ComputePovertyImpact ==
    /\ pc = "poverty"
    /\ UNCHANGED <<mainVars, dbVars, extVars>>
    /\ \E zero_raises \in BOOLEAN :
          LET res == compute_poverty_impact(persons, FALSE, zero_raises)
          IN  IF res.raised
              THEN pc' = "error" /\ UNCHANGED poverty_impact
              ELSE pc' = "child_poverty" /\ poverty_impact' = Computed(res.value)
    /\ UNCHANGED <<households, persons, tax_units, weight_den, state, budgetary_impact,
                   income_change, relative_change, child_poverty_impact, winners_losers,
                   decile_impact, district_impacts, district_locals, impacts>>

\* line 876
ComputeChildPovertyImpact ==
    /\ pc = "child_poverty"
    /\ UNCHANGED <<mainVars, dbVars, extVars>>
    /\ \E zero_raises \in BOOLEAN :
          LET res == compute_poverty_impact(persons, TRUE, zero_raises)
          IN  IF res.raised
              THEN pc' = "error" /\ UNCHANGED child_poverty_impact
              ELSE pc' = "winners_losers" /\ child_poverty_impact' = Computed(res.value)
    /\ UNCHANGED <<households, persons, tax_units, weight_den, state, budgetary_impact,
                   income_change, relative_change, poverty_impact, winners_losers,
                   decile_impact, district_impacts, district_locals, impacts>>

\* line 879
ComputeWinnersLosers ==
    /\ pc = "winners_losers"
    /\ UNCHANGED <<mainVars, dbVars, extVars>>
    /\ income_change' = [j \in 1 .. Len(households) |->
                            WL_income_change(households[j].baseline_income,
                                             households[j].reform_income)]
    /\ winners_losers' = Computed(compute_winners_losers(households, income_change'))
    /\ pc' = "decile"
    /\ UNCHANGED <<households, persons, tax_units, weight_den, state, budgetary_impact,
                   relative_change, poverty_impact, child_poverty_impact, decile_impact,
                   district_impacts, district_locals, impacts>>

\* line 885
ComputeDecileImpact ==
    /\ pc = "decile"
    /\ UNCHANGED <<mainVars, dbVars, extVars>>
    /\ decile_impact' = Computed(compute_decile_impact(households))
    /\ pc' = "district"
    /\ UNCHANGED <<households, persons, tax_units, weight_den, state, budgetary_impact,
                   income_change, relative_change, poverty_impact, child_poverty_impact,
                   winners_losers, district_impacts, district_locals, impacts>>

\* lines 886-899: the last calculator and the assembly of the impacts dict
ComputeDistrictImpacts ==
    /\ pc = "district"
    /\ UNCHANGED <<mainVars, dbVars, extVars>>
    /\ \E zero_raises \in BOOLEAN :
          LET chg == [j \in 1 .. Len(households) |->
                         district_relative_change(households[j].baseline_income,
                                                  households[j].reform_income)]
              res == compute_district_impacts(households, persons, chg, weight_den, state,
                                               zero_raises)
          IN  IF res.raised
              THEN /\ pc' = "error"
                   /\ UNCHANGED <<relative_change, district_impacts, district_locals,
                                  impacts>>
              ELSE /\ pc' = "assembled"
                   /\ relative_change' = IF district_data_available(households, state)
                                         THEN chg ELSE <<>>
                   /\ district_impacts' = Computed(res.impacts)
                   /\ district_locals' = Computed(res.locals)
                   /\ impacts' = Computed(assemble_impacts(budgetary_impact.value,
                                                           poverty_impact.value,
                                                           child_poverty_impact.value,
                                                           winners_losers.value,
                                                           decile_impact.value,
                                                           res.impacts))
    /\ UNCHANGED <<households, persons, tax_units, weight_den, state, budgetary_impact,
                   income_change, poverty_impact, child_poverty_impact, winners_losers,
                   decile_impact>>

Next ==
    \/ ComputeBudgetaryImpact
    \/ ComputePovertyImpact
    \/ ComputeChildPovertyImpact
    \/ ComputeWinnersLosers
    \/ ComputeDecileImpact
    \/ ComputeDistrictImpacts

Spec == Init /\ [][Next]_vars

(***************************************************************************)
(* write_to_supabase and the table reform_impacts.                         *)
(*                                                                         *)
(* JSON values are records with a field kind; a string value is            *)
(* represented by what json.loads makes of its text.                       *)
(***************************************************************************)
MaxCalls == 3

None == [kind |-> "null"]

Dict(items) == [kind |-> "dict", items |-> items]

Number(n) == [kind |-> "number", value |-> n]

Leaf(tag) == [kind |-> "value", tag |-> tag]

JsonList == [kind |-> "list"]

\* a string: loads is the value of json.loads, or Invalid for JSONDecodeError
JsonText(loads) == [kind |-> "str", loads |-> loads]

Invalid == [kind |-> "invalid"]

EmptyDict == Dict(<<>>)

\* str(analysis_year)
YearStr(y) ==
    IF y = 2025 THEN "2025" ELSE IF y = 2026 THEN "2026" ELSE IF y = 2027 THEN "2027"
    ELSE "2028"

\* dict.get(key, default)
Get(d, key, default) == IF key \in DOMAIN d THEN d[key] ELSE default

\* the impacts dict of a run, reduced to a tag per field
ImpactsTagged(tag, with_districts) ==
    LET base == [computed |-> TRUE,
                 computedAt |-> Leaf(tag),
                 budgetaryImpact |-> Leaf(tag),
                 povertyImpact |-> Leaf(tag),
                 childPovertyImpact |-> Leaf(tag),
                 winnersLosers |-> Leaf(tag),
                 decileImpact |-> Leaf(tag)]
    IN  IF with_districts
        THEN [k \in DOMAIN base \cup {"districtImpacts"} |->
                 IF k = "districtImpacts" THEN Leaf(tag) ELSE base[k]]
        ELSE base

\* lines 687-695: the entry of one year
year_entry(imp) ==
    Dict([budgetaryImpact |-> imp.budgetaryImpact,
          povertyImpact |-> imp.povertyImpact,
          childPovertyImpact |-> imp.childPovertyImpact,
          winnersLosers |-> imp.winnersLosers,
          decileImpact |-> imp.decileImpact,
          districtImpacts |-> Get(imp, "districtImpacts", None),
          computedAt |-> imp.computedAt])

\* the notes of the selected rows without the branch for a dict
existing_notes_of_text_only(data) ==
    IF Len(data) = 0 THEN EmptyDict
    ELSE LET notes == data[1].model_notes
         IN  IF notes.kind = "str"
             THEN IF notes.loads.kind = "invalid" THEN EmptyDict ELSE notes.loads
             ELSE EmptyDict

\* lines 667-681: the notes of the selected rows as a dict; a string is
\* parsed and may give any JSON value
existing_notes_of(data) ==
    IF Len(data) = 0 THEN EmptyDict
    ELSE LET notes == data[1].model_notes
         IN  IF notes.kind = "dict" THEN notes
             ELSE IF notes.kind = "str"
                  THEN IF notes.loads.kind = "invalid" THEN EmptyDict ELSE notes.loads
             ELSE EmptyDict

\* the merged notes with the archive started afresh
multi_year_notes_fresh(existing_notes, imp, analysis_year) ==
    [raised |-> FALSE,
     notes |-> Dict([analysis_year |-> Number(analysis_year),
                     impacts_by_year |->
                         Dict([k \in {YearStr(analysis_year)} |-> year_entry(imp)])])]

\* lines 683-703: the merged model_notes; .get on a value that is no dict and
\* item assignment on an impacts_by_year that is no dict raise
multi_year_notes(existing_notes, imp, analysis_year) ==
    IF existing_notes.kind # "dict" THEN [raised |-> TRUE]
    ELSE LET impacts_by_year == Get(existing_notes.items, "impacts_by_year", EmptyDict)
         IN  IF impacts_by_year.kind # "dict" THEN [raised |-> TRUE]
             ELSE LET year_str == YearStr(analysis_year)
                      by_year == [k \in DOMAIN impacts_by_year.items \cup {year_str} |->
                                     IF k = year_str THEN year_entry(imp)
                                     ELSE impacts_by_year.items[k]]
                      merged == [k \in DOMAIN existing_notes.items
                                          \cup {"analysis_year", "impacts_by_year"} |->
                                    IF k = "analysis_year" THEN Number(analysis_year)
                                    ELSE IF k = "impacts_by_year" THEN Dict(by_year)
                                    ELSE existing_notes.items[k]]
                  IN  [raised |-> FALSE, notes |-> Dict(merged)]

\* lines 705-739: the record of both modes; the version columns are left out
build_record(reform_id, imp, reform_params, model_notes) ==
    [id |-> reform_id,
     computed |-> TRUE,
     computed_at |-> imp.computedAt,
     budgetary_impact |-> imp.budgetaryImpact,
     poverty_impact |-> imp.povertyImpact,
     child_poverty_impact |-> imp.childPovertyImpact,
     winners_losers |-> imp.winnersLosers,
     decile_impact |-> imp.decileImpact,
     district_impacts |-> Get(imp, "districtImpacts", None),
     reform_params |-> reform_params,
     model_notes |-> model_notes]

\* select("model_notes").eq("id", reform_id)
select_model_notes(table, reform_id) ==
    IF reform_id \in DOMAIN table THEN <<[model_notes |-> table[reform_id].model_notes]>>
    ELSE <<>>

\* upsert(record): the record sets every column of the model
upsert(table, record) ==
    [k \in DOMAIN table \cup {record.id} |-> IF k = record.id THEN record ELSE table[k]]

\* lines 659-745
write_to_supabase(table, reform_id, imp, reform_params, analysis_year, multi_year) ==
    LET notes == IF multi_year
                 THEN multi_year_notes(existing_notes_of(select_model_notes(table, reform_id)),
                                       imp, analysis_year)
                 ELSE [raised |-> FALSE,
                       notes |-> Dict([analysis_year |-> Number(analysis_year)])]
    IN  IF notes.raised THEN [raised |-> TRUE, table |-> table]
        ELSE [raised |-> FALSE,
              table |-> upsert(table, build_record(reform_id, imp, reform_params,
                                                   notes.notes))]

\* a row as it is before a run writes it
StoredRow(reform_id, computed, reform_params, model_notes) ==
    [id |-> reform_id,
     computed |-> computed,
     computed_at |-> IF computed THEN Leaf("earlier") ELSE None,
     budgetary_impact |-> IF computed THEN Leaf("earlier") ELSE None,
     poverty_impact |-> IF computed THEN Leaf("earlier") ELSE None,
     child_poverty_impact |-> IF computed THEN Leaf("earlier") ELSE None,
     winners_losers |-> IF computed THEN Leaf("earlier") ELSE None,
     decile_impact |-> IF computed THEN Leaf("earlier") ELSE None,
     district_impacts |-> None,
     reform_params |-> reform_params,
     model_notes |-> model_notes]

(***************************************************************************)
(* Calls of write_to_supabase on the row of one reform.                    *)
(***************************************************************************)
WrittenReform == "ri-h5001"

WriteYears == {2026, 2027}

WriteImpacts == {ImpactsTagged("first", TRUE), ImpactsTagged("second", FALSE)}

\* an archive of an earlier run
OldNotes ==
    Dict([analysis_year |-> Number(2025),
          comment |-> Leaf("note"),
          impacts_by_year |-> Dict([k \in {"2025"} |->
                                       year_entry(ImpactsTagged("earlier", FALSE))])])

\* the values the column model_notes can hold
StoredNotes ==
    {None, EmptyDict, OldNotes, JsonText(OldNotes), JsonText(Invalid), JsonText(JsonList),
     JsonList, Dict([impacts_by_year |-> None])}

InitWrite ==
    /\ \/ reform_impacts = <<>>
       \/ \E notes \in StoredNotes, computed \in BOOLEAN :
             reform_impacts = [k \in {WrittenReform} |->
                                  StoredRow(WrittenReform, computed, Leaf("params"), notes)]
    /\ call_log = <<>>
    /\ pc = "idle"
    /\ households = <<>>
    /\ persons = <<>>
    /\ tax_units = <<>>
    /\ weight_den = 1
    /\ state = "RI"
    /\ budgetary_impact = NoRecord
    /\ income_change = <<>>
    /\ relative_change = <<>>
    /\ poverty_impact = NoRecord
    /\ child_poverty_impact = NoRecord
    /\ winners_losers = NoRecord
    /\ decile_impact = NoRecord
    /\ district_impacts = NoRecord
    /\ district_locals = NoRecord
    /\ impacts = NoRecord
    /\ MainIdle
    /\ ExtIdle

\* one call; the request of the upsert can fail and then changes nothing
WriteToSupabase ==
    /\ Len(call_log) < MaxCalls
    /\ \E year \in WriteYears, multi_year \in BOOLEAN, imp \in WriteImpacts,
          request_fails \in BOOLEAN :
          LET res == write_to_supabase(reform_impacts, WrittenReform, imp, Leaf("params"),
                                       year, multi_year)
              raised == res.raised \/ request_fails
          IN  /\ reform_impacts' = IF raised THEN reform_impacts ELSE res.table
              /\ call_log' = Append(call_log, [year |-> year, multi_year |-> multi_year,
                                               impacts |-> imp, raised |-> raised])
    /\ UNCHANGED <<calcVars, extVars, mainVars>>

NextWrite == WriteToSupabase

SpecWrite == InitWrite /\ [][NextWrite]_vars


(***************************************************************************)
(* Two multi-year calls of write_to_supabase for one reform that run at    *)
(* the same time: the select of line 668 and the upsert of line 744 are    *)
(* separate requests, and the requests of the two calls interleave.        *)
(***************************************************************************)
Writers == {"first", "second"}

Writer(position, year, imp, data) ==
    [at |-> position, year |-> year, impacts |-> imp, data |-> data]

\* no calculator and no run of main() is under way
CalcIdle ==
    /\ pc = "idle"
    /\ households = <<>>
    /\ persons = <<>>
    /\ tax_units = <<>>
    /\ weight_den = 1
    /\ state = "RI"
    /\ budgetary_impact = NoRecord
    /\ income_change = <<>>
    /\ relative_change = <<>>
    /\ poverty_impact = NoRecord
    /\ child_poverty_impact = NoRecord
    /\ winners_losers = NoRecord
    /\ decile_impact = NoRecord
    /\ district_impacts = NoRecord
    /\ district_locals = NoRecord
    /\ impacts = NoRecord

InitConcurrent ==
    /\ \/ reform_impacts = <<>>
       \/ \E notes \in StoredNotes, computed \in BOOLEAN :
             reform_impacts = [k \in {WrittenReform} |->
                                  StoredRow(WrittenReform, computed, Leaf("params"), notes)]
    /\ call_log = <<>>
    /\ \E years \in [Writers -> WriteYears], imps \in [Writers -> WriteImpacts] :
          /\ \A a, b \in Writers : a # b => years[a] # years[b]
          /\ writers = [w \in Writers |-> Writer("select", years[w], imps[w], <<>>)]
    /\ CalcIdle
    /\ MainIdle
    /\ MonitorIdle

\* line 668: the select request of one call
SelectModelNotes(w) ==
    /\ writers[w].at = "select"
    /\ \E request_fails \in BOOLEAN :
          writers' = [writers EXCEPT ![w] =
                         IF request_fails THEN [@ EXCEPT !.at = "raised"]
                         ELSE [@ EXCEPT !.at = "upsert",
                                        !.data = select_model_notes(reform_impacts,
                                                                    WrittenReform)]]
    /\ UNCHANGED <<calcVars, mainVars, dbVars, monVars>>

\* lines 669-745: the merge with the notes that were selected, and the upsert
UpsertRecord(w) ==
    /\ writers[w].at = "upsert"
    /\ \E request_fails \in BOOLEAN :
          LET notes == multi_year_notes(existing_notes_of(writers[w].data),
                                        writers[w].impacts, writers[w].year)
              raised == notes.raised \/ request_fails
          IN  /\ reform_impacts' =
                    IF raised THEN reform_impacts
                    ELSE upsert(reform_impacts,
                                build_record(WrittenReform, writers[w].impacts,
                                             Leaf("params"), notes.notes))
              /\ writers' = [writers EXCEPT ![w].at = IF raised THEN "raised" ELSE "returned"]
              /\ call_log' = Append(call_log, [year |-> writers[w].year, multi_year |-> TRUE,
                                               impacts |-> writers[w].impacts,
                                               raised |-> raised])
    /\ UNCHANGED <<calcVars, mainVars, monVars>>

NextConcurrent ==
    \E w \in Writers :
        \/ SelectModelNotes(w)
        \/ UpsertRecord(w)

SpecConcurrent == InitConcurrent /\ [][NextConcurrent]_vars


(***************************************************************************)
(* main(): one run over the reforms that load_reforms_from_db returns,     *)
(* lines 762-927.  The simulations and the calculators of a reform are     *)
(* reduced to their outcome: they raise or they return.                    *)
(***************************************************************************)
MaxReforms == 2

ReformIds == {"ri-h5001", "ri-s2002", "ri-h5003"}

\* reform params: the start years of the period keys of the parameter
\* entries, and the special keys that are present
Params(start_years, special) == [start_years |-> start_years, special |-> special]

\* reform_impacts.reform_params as stored for each reform
StoredParams(id) ==
    IF id = "ri-s2002" THEN Params({2026}, {"_use_reform", "_skip_params"})
    ELSE IF id = "ri-h5001" THEN Params({2027}, {})
    ELSE Params({2027, 2028}, {})

StoredNotesOf(computed) == IF computed THEN OldNotes ELSE None

\* lines 116-127: the dict of one loaded reform
LoadedReform(id, computed) ==
    [id |-> id, state |-> "ri", reform |-> StoredParams(id), computed |-> computed]

YearHorizon == 2100

DefaultYear == 2026

Min(S) == CHOOSE x \in S : \A y \in S : x <= y

\* lines 640-656; the value of a special key is a string or a list, and
\* values.keys() raises AttributeError on it
get_effective_year_from_params(reform_params) ==
    IF reform_params.special # {} THEN [raised |-> TRUE]
    ELSE LET earliest_year == Min(reform_params.start_years \cup {YearHorizon})
         IN  [raised |-> FALSE,
              value |-> IF earliest_year < YearHorizon THEN earliest_year ELSE DefaultYear]

\* lines 201-203: create_reform_class pops the special keys of the dict
popped(reform_params) == [reform_params EXCEPT !.special = {}]

\* "error" in str(s)
Contains(s, t) ==
    \E k \in 1 .. (Len(s) - Len(t) + 1) : SubSeq(s, k, k + Len(t) - 1) = t

\* an exit status of 1 for every reform that was not computed
exit_status_not_computed(res) ==
    IF \E id \in DOMAIN res : res[id] # "computed" THEN 1 ELSE 0

\* lines 925-927
exit_status(res) ==
    IF \E id \in DOMAIN res : Contains(res[id], "error") THEN 1 ELSE 0

\* a skip that --force does not switch off
skips_even_if_forced(force, computed) == computed

\* line 849: the reform is skipped
skips(force, computed) == ~force /\ computed

\* an exception that does not leave the try body
propagates_never(raised) == FALSE

\* lines 862-912: an exception of the simulations or of a calculator leaves
\* the try body at once
propagates(raised) == raised

\* an error that ends the loop
after_error_stop(i) == Len(reforms) + 1

\* lines 912-916: the handler records the status and the loop goes on
after_error(i) == i + 1

\* the calculators that can raise on a dataset
RaisingCalculators == {"compute_poverty_impact", "compute_district_impacts"}

Call(fn, id, raised) == [fn |-> fn, id |-> id, raised |-> raised]

At(position, i) == [at |-> position, i |-> i, sim_year |-> 0, impacts |-> None]

ReformSeqs(n) ==
    UNION {{q \in [1 .. k -> ReformIds \X BOOLEAN] :
               \A a, b \in 1 .. k : a # b => q[a][1] # q[b][1]} : k \in 0 .. n}

InitBatch ==
    /\ supabase \in {"client", "none"}
    /\ args \in [force : BOOLEAN, list : BOOLEAN, multi_year : BOOLEAN, year : {0, 2026}]
    /\ \E q \in ReformSeqs(MaxReforms) :
          /\ reforms = [k \in DOMAIN q |-> LoadedReform(q[k][1], q[k][2])]
          /\ reform_impacts =
                [id \in {q[k][1] : k \in DOMAIN q} |->
                    LET k == CHOOSE j \in DOMAIN q : q[j][1] = id
                    IN  StoredRow(id, q[k][2], StoredParams(id), StoredNotesOf(q[k][2]))]
          /\ research = [id \in {q[k][1] : k \in DOMAIN q} |-> "pending"]
    /\ results = <<>>
    /\ main_pc = At("start", 0)
    /\ calls = {}
    /\ exit_code = -1
    /\ call_log = <<>>
    /\ pc = "idle"
    /\ households = <<>>
    /\ persons = <<>>
    /\ tax_units = <<>>
    /\ weight_den = 1
    /\ state = "RI"
    /\ budgetary_impact = NoRecord
    /\ income_change = <<>>
    /\ relative_change = <<>>
    /\ poverty_impact = NoRecord
    /\ child_poverty_impact = NoRecord
    /\ winners_losers = NoRecord
    /\ decile_impact = NoRecord
    /\ district_impacts = NoRecord
    /\ district_locals = NoRecord
    /\ impacts = NoRecord
    /\ ExtIdle

CurrentReform == reforms[main_pc.i]

\* lines 912-916: the except clause
Failed(message) ==
    /\ results' = (CurrentReform.id :> ("error: " \o message)) @@ results
    /\ main_pc' = At("loop", after_error(main_pc.i))

\* lines 807-811
RequireSupabase ==
    /\ main_pc.at = "start"
    /\ IF supabase = "none"
       THEN main_pc' = At("exit", 0) /\ exit_code' = 1
       ELSE main_pc' = At("load", 0) /\ UNCHANGED exit_code
    /\ UNCHANGED <<args, supabase, reforms, research, results, calls, calcVars, extVars, dbVars>>

\* lines 818-835
LoadReforms ==
    /\ main_pc.at = "load"
    /\ IF reforms = <<>>
       THEN main_pc' = At("exit", 0) /\ exit_code' = 1
       ELSE IF args.list
            THEN main_pc' = At("exit", 0) /\ exit_code' = 0
            ELSE main_pc' = At("loop", 1) /\ UNCHANGED exit_code
    /\ UNCHANGED <<args, supabase, reforms, research, results, calls, calcVars, extVars, dbVars>>

\* lines 839-852
NextReform ==
    /\ main_pc.at = "loop"
    /\ main_pc.i <= Len(reforms)
    /\ IF skips(args.force, CurrentReform.computed)
       THEN /\ results' = (CurrentReform.id :> "skipped") @@ results
            /\ main_pc' = At("loop", main_pc.i + 1)
       ELSE /\ main_pc' = At("year", main_pc.i)
            /\ UNCHANGED results
    /\ UNCHANGED <<args, supabase, reforms, research, calls, exit_code, calcVars, extVars, dbVars>>

\* lines 855-860
DetermineYear ==
    /\ main_pc.at = "year"
    /\ IF args.year # 0
       THEN /\ main_pc' = [main_pc EXCEPT !.at = "simulate", !.sim_year = args.year]
            /\ UNCHANGED <<results, calls>>
       ELSE LET year == get_effective_year_from_params(CurrentReform.reform)
            IN  /\ calls' = calls \cup {Call("get_effective_year_from_params",
                                             CurrentReform.id, year.raised)}
                /\ IF year.raised
                   THEN Failed("'str' object has no attribute 'keys'")
                   ELSE /\ main_pc' = [main_pc EXCEPT !.at = "simulate",
                                                      !.sim_year = year.value]
                        /\ UNCHANGED results
    /\ UNCHANGED <<args, supabase, reforms, research, exit_code, calcVars, extVars, dbVars>>

\* lines 862-864: the simulations can raise before or after the special keys
\* were popped
RunSimulations ==
    /\ main_pc.at = "simulate"
    /\ \E raised \in BOOLEAN, pops \in BOOLEAN :
          /\ ~raised => pops
          /\ reforms' = IF pops
                        THEN [reforms EXCEPT ![main_pc.i].reform = popped(@)]
                        ELSE reforms
          /\ calls' = calls \cup {Call("run_simulations", CurrentReform.id, raised)}
          /\ IF propagates(raised)
             THEN Failed("simulation failed")
             ELSE main_pc' = [main_pc EXCEPT !.at = "calculate"] /\ UNCHANGED results
    /\ UNCHANGED <<args, supabase, research, exit_code, calcVars, extVars, dbVars>>

\* lines 866-899: the calculators and the assembly of the impacts dict
ComputeImpacts ==
    /\ main_pc.at = "calculate"
    /\ \E failing \in RaisingCalculators \cup {"none"} :
          LET raised == failing # "none"
              fn == IF raised THEN failing ELSE "calculators"
          IN  /\ calls' = calls \cup {Call(fn, CurrentReform.id, raised)}
              /\ IF propagates(raised)
                 THEN Failed("float division by zero")
                 ELSE /\ main_pc' = [main_pc EXCEPT
                                        !.at = "write",
                                        !.impacts = ImpactsTagged(CurrentReform.id, TRUE)]
                      /\ UNCHANGED results
    /\ UNCHANGED <<args, supabase, reforms, research, exit_code, calcVars, extVars, dbVars>>

\* lines 901-903
WriteImpactsRecord ==
    /\ main_pc.at = "write"
    /\ \E request_fails \in BOOLEAN :
          LET res == write_to_supabase(reform_impacts, CurrentReform.id, main_pc.impacts,
                                       CurrentReform.reform, main_pc.sim_year,
                                       args.multi_year)
              raised == res.raised \/ request_fails
          IN  /\ reform_impacts' = IF raised THEN reform_impacts ELSE res.table
              /\ calls' = calls \cup {Call("write_to_supabase", CurrentReform.id, raised)}
              /\ IF raised
                 THEN Failed("write failed")
                 ELSE main_pc' = [main_pc EXCEPT !.at = "status"] /\ UNCHANGED results
    /\ UNCHANGED <<args, supabase, reforms, research, exit_code, calcVars, extVars, call_log>>

\* lines 905-910
UpdateResearchStatus ==
    /\ main_pc.at = "status"
    /\ \E raised \in BOOLEAN :
          /\ calls' = calls \cup {Call("update_research_status", CurrentReform.id, raised)}
          /\ research' = IF raised THEN research
                         ELSE [research EXCEPT ![CurrentReform.id] = "in_review"]
          /\ IF raised
             THEN Failed("status update failed")
             ELSE /\ results' = (CurrentReform.id :> "computed") @@ results
                  /\ main_pc' = At("loop", main_pc.i + 1)
    /\ UNCHANGED <<args, supabase, reforms, exit_code, calcVars, extVars, dbVars>>

\* lines 918-927
Summary ==
    /\ main_pc.at = "loop"
    /\ main_pc.i > Len(reforms)
    /\ exit_code' = exit_status(results)
    /\ main_pc' = At("exit", 0)
    /\ UNCHANGED <<args, supabase, reforms, research, results, calls, calcVars, extVars, dbVars>>

NextBatch ==
    \/ RequireSupabase
    \/ LoadReforms
    \/ NextReform
    \/ DetermineYear
    \/ RunSimulations
    \/ ComputeImpacts
    \/ WriteImpactsRecord
    \/ UpdateResearchStatus
    \/ Summary

SpecBatch == InitBatch /\ [][NextBatch]_vars

(***************************************************************************)
(* legiscan_monitor.py: runs of main() against LegiScan, the Supabase      *)
(* tables processed_bills and dataset_hashes, GitHub and the encode-bill   *)
(* subprocess.  A bill is reduced to its id, its session years and the     *)
(* outcome of the keyword filter; the statistics counters are left out.    *)
(***************************************************************************)
MaxDatasets == 2

TARGET_SESSION_YEAR == 2026

EncodeThreshold == 75

EncodeMax == 3

BillIds == {101, 102, 103, 104}

\* the bill dict that getBill and the dataset ZIP hold for a bill id: 102 does
\* not pass the keyword filter, 103 belongs to a session of 2025
Bill(id) ==
    [bill_id |-> id,
     year_start |-> IF id = 103 THEN 2025 ELSE 2026,
     year_end |-> IF id = 103 THEN 2025 ELSE 2026,
     session_name_has_2026 |-> FALSE,
     relevant |-> id # 102]

\* lines 249-264
is_2026_session(bill) ==
    \/ bill.year_start <= TARGET_SESSION_YEAR /\ TARGET_SESSION_YEAR <= bill.year_end
    \/ bill.session_name_has_2026

\* lines 452-587: the keyword filter on title and description
is_relevant_bill(bill) == bill.relevant

\* the bills of a session, in the order of the dataset and of a search result
BillLists == {<<102, 104, 101>>, <<103, 101, 101>>}

Session(i, year_start, year_end, bills) ==
    [session_id |-> 2200 + i, dataset_hash |-> "h1", year_start |-> year_start,
     year_end |-> year_end, bills |-> bills]

SessionsOf(i) ==
    {Session(i, 2026, 2026, bills) : bills \in BillLists}
    \cup {Session(i, 2025, 2025, <<101>>)}

\* one session per state, in the order of the states
Worlds(n) ==
    {w \in [1 .. n -> UNION {SessionsOf(i) : i \in 1 .. n}] :
        \A i \in 1 .. n : w[i].session_id = 2200 + i}

\* lines 1059-1068: --dry-run, --query and --auto-encode; --states is drawn
\* where the search scan reads it
MonitorArgs == [dry_run : BOOLEAN, search : BOOLEAN, auto_encode : BOOLEAN]

\* what fails in a step of a run: the reads of Supabase, the LegiScan requests
\* for the first session or candidate, or the writes to Supabase
Faults == {"none", "read", "legiscan", "write"}

Range(s) == {s[i] : i \in 1 .. Len(s)}

\* lines 137-157: the row of a bill in processed_bills
ProcessedRow(skipped_reason) == [skipped_reason |-> skipped_reason]

Effect(kind, key) == [kind |-> kind, key |-> key]

EffectsOf(kind, keys) == {Effect(kind, key) : key \in Range(keys)}

\* a write that is made in a dry run too
writes_allowed_always(dry_run) == TRUE

\* lines 845, 940, 949: if not dry_run
writes_allowed(dry_run) == ~dry_run

\* a scan that does not remember the bills it has added
mark_processed_not(processed_ids, bill_id) == processed_ids

\* line 946: processed_ids.add(bill_id)
mark_processed(processed_ids, bill_id) == processed_ids \cup {bill_id}

\* lines 115-122: the ids of the table, or set() when the request fails
get_processed_bill_ids(table, fault) == IF fault = "read" THEN {} ELSE DOMAIN table

\* lines 166-173: the stored hashes, or {} when the request fails
get_stored_dataset_hashes(hashes, fault) == IF fault = "read" THEN <<>> ELSE hashes

\* lines 125-163: the upsert of one row per bill; a failed request is
\* swallowed.  Of the columns of a row, skipped_reason is kept.
save_processed_bills(table, bill_ids, skipped_reason, fault) ==
    IF fault = "write" THEN table
    ELSE [b \in DOMAIN table \cup Range(bill_ids) |->
             IF b \in Range(bill_ids) THEN ProcessedRow(skipped_reason) ELSE table[b]]

\* lines 176-193: the upsert of the hashes; a failed request is swallowed
save_dataset_hashes(hashes, session_ids, datasets, fault) ==
    IF fault = "write" THEN hashes
    ELSE [sid \in DOMAIN hashes \cup Range(session_ids) |->
             IF sid \in Range(session_ids)
             THEN (CHOOSE ds \in Range(datasets) : ds.session_id = sid).dataset_hash
             ELSE hashes[sid]]

ScanResult(processed_ids) ==
    [processed_ids |-> processed_ids, new_bills |-> <<>>, skipped_bills |-> <<>>,
     saves |-> <<>>, hash_saves |-> <<>>]

\* lines 924-946: the bills of one dataset
RECURSIVE scan_bills(_, _, _, _)
scan_bills(bills, i, dry_run, acc) ==
    IF i > Len(bills) THEN acc
    ELSE LET bill_id == bills[i]
             bill == Bill(bill_id)
         IN  scan_bills(bills, i + 1, dry_run,
                IF bill_id \in acc.processed_ids THEN acc
                ELSE IF ~is_2026_session(bill) THEN acc
                ELSE IF ~is_relevant_bill(bill)
                     THEN [acc EXCEPT !.skipped_bills = Append(@, bill_id),
                                      !.saves = IF writes_allowed(dry_run)
                                                THEN Append(@, bill_id) ELSE @]
                ELSE [acc EXCEPT !.new_bills = Append(@, bill_id),
                                 !.processed_ids = mark_processed(@, bill_id)])

\* lines 883-954: the datasets of the states
RECURSIVE scan_datasets(_, _, _, _, _, _)
scan_datasets(datasets, k, stored_hashes, download_fails, dry_run, acc) ==
    IF k > Len(datasets) THEN acc
    ELSE LET ds == datasets[k]
             unchanged == /\ ds.session_id \in DOMAIN stored_hashes
                          /\ stored_hashes[ds.session_id] = ds.dataset_hash
             after == scan_bills(ds.bills, 1, dry_run, acc)
         IN  scan_datasets(datasets, k + 1, stored_hashes, download_fails, dry_run,
                IF ~(ds.year_start <= TARGET_SESSION_YEAR
                     /\ TARGET_SESSION_YEAR <= ds.year_end) THEN acc
                ELSE IF unchanged THEN acc
                ELSE IF ds.session_id \in download_fails THEN acc
                ELSE [after EXCEPT !.hash_saves = IF writes_allowed(dry_run)
                                                   THEN Append(@, ds.session_id) ELSE @])

\* lines 859-967
run_dataset_scan(datasets, table, hashes, fault, dry_run) ==
    scan_datasets(datasets, 1, get_stored_dataset_hashes(hashes, fault),
                  IF fault = "legiscan" THEN {datasets[1].session_id} ELSE {},
                  dry_run, ScanResult(get_processed_bill_ids(table, fault)))

\* lines 214-246: the results of getSearchRaw, each with a relevance
search_bills(bills) == [i \in 1 .. Len(bills) |-> [bill_id |-> bills[i], relevance |-> 50 + i]]

\* lines 811-812: candidate_bill_ids[bill_id] = (query, relevance)
add_candidate(candidates, bill_id, query, relevance) ==
    IF \E j \in 1 .. Len(candidates) : candidates[j].bill_id = bill_id
    THEN [j \in 1 .. Len(candidates) |->
             IF candidates[j].bill_id = bill_id /\ relevance > candidates[j].relevance
             THEN [bill_id |-> bill_id, query |-> query, relevance |-> relevance]
             ELSE candidates[j]]
    ELSE Append(candidates, [bill_id |-> bill_id, query |-> query, relevance |-> relevance])

\* lines 803-812 and 817-826: the results of one search
RECURSIVE collect_results(_, _, _, _, _)
collect_results(found, i, query, processed_ids, candidates) ==
    IF i > Len(found) THEN candidates
    ELSE collect_results(found, i + 1, query, processed_ids,
            IF found[i].bill_id \in processed_ids THEN candidates
            ELSE add_candidate(candidates, found[i].bill_id, query, found[i].relevance))

\* lines 793-812: the states of one query; a state without a session of the
\* target year is skipped
RECURSIVE search_states(_, _, _, _, _)
search_states(sessions, k, query, processed_ids, candidates) ==
    IF k > Len(sessions) THEN candidates
    ELSE search_states(sessions, k + 1, query, processed_ids,
            IF ~(sessions[k].year_start <= TARGET_SESSION_YEAR
                 /\ TARGET_SESSION_YEAR <= sessions[k].year_end) THEN candidates
            ELSE collect_results(search_bills(sessions[k].bills), 1, query, processed_ids,
                                 candidates))

RECURSIVE AllBills(_, _)
AllBills(sessions, k) ==
    IF k = 0 THEN <<>> ELSE AllBills(sessions, k - 1) \o sessions[k].bills

\* lines 789-826: the queries
RECURSIVE search_queries(_, _, _, _, _, _)
search_queries(queries, q, sessions, states, processed_ids, candidates) ==
    IF q > Len(queries) THEN candidates
    ELSE search_queries(queries, q + 1, sessions, states, processed_ids,
            IF states
            THEN search_states(sessions, 1, queries[q], processed_ids, candidates)
            ELSE collect_results(search_bills(AllBills(sessions, Len(sessions))), 1,
                                 queries[q], processed_ids, candidates))

\* lines 831-850: the details of the candidates
RECURSIVE fetch_candidates(_, _, _, _, _)
fetch_candidates(candidates, i, details_fail, dry_run, acc) ==
    IF i > Len(candidates) THEN acc
    ELSE LET bill_id == candidates[i].bill_id
             bill == Bill(bill_id)
         IN  fetch_candidates(candidates, i + 1, details_fail, dry_run,
                IF i \in details_fail THEN acc
                ELSE IF ~is_2026_session(bill) THEN acc
                ELSE IF ~is_relevant_bill(bill)
                     THEN [acc EXCEPT !.skipped_bills = Append(@, bill_id),
                                      !.saves = IF writes_allowed(dry_run)
                                                THEN Append(@, bill_id) ELSE @]
                ELSE [acc EXCEPT !.new_bills = Append(@, bill_id)])

\* lines 773-856
run_search_scan(sessions, table, states, queries, fault, dry_run) ==
    LET processed_ids == get_processed_bill_ids(table, fault)
    IN  fetch_candidates(search_queries(queries, 1, sessions, states, processed_ids, <<>>),
                         1, IF fault = "legiscan" THEN {1} ELSE {}, dry_run,
                         ScanResult(processed_ids))

\* lines 1110-1125: the scores of score_bill_with_llm, sorted by descending
\* score (the sort is stable); the reform type, the first key of the sort, is
\* left out
scored_sorted(new_bills, high) ==
    LET scored == [i \in 1 .. Len(new_bills) |->
                      [bill_id |-> new_bills[i],
                       score |-> IF new_bills[i] \in high THEN 80 ELSE 0]]
    IN  SelectSeq(scored, LAMBDA s : s.score = 80) \o SelectSeq(scored, LAMBDA s : s.score = 0)

\* lines 992-1003: the candidates of run_auto_encode
encode_candidates(scored, already_encoded_ids, threshold, max_bills) ==
    LET candidates == SelectSeq(scored, LAMBDA s : s.score >= threshold
                                                   /\ s.bill_id \notin already_encoded_ids)
    IN  SubSeq(candidates, 1, IF Len(candidates) < max_bills THEN Len(candidates)
                              ELSE max_bills)

\* lines 1021-1052: the requests and the subprocess of run_auto_encode
encode_effects(candidates) ==
    EffectsOf("update processed_bills", candidates) \cup EffectsOf("encode-bill", candidates)

BillIdsOf(scored) == [i \in 1 .. Len(scored) |-> scored[i].bill_id]

InitMonitor ==
    /\ legiscan \in Worlds(MaxDatasets)
    /\ processed_bills \in {<<>>, [b \in {101} |-> ProcessedRow("none")]}
    /\ dataset_hashes \in {[sid \in {2201} |-> "h0"], [sid \in {2201} |-> "h1"]}
    /\ monitor = [at |-> "idle"]
    /\ effects = {}
    /\ last_run = [mode |-> "none"]
    /\ writers = <<>>
    /\ CalcIdle
    /\ MainIdle
    /\ TableIdle

\* what a run leaves behind when main() returns: its mode, the outcome of
\* create_digest_issue, the exit code, and the new bills that it found and
\* that no issue reports
RunSummary(issue, code) ==
    [mode |-> IF monitor.args.search THEN "search" ELSE "dataset",
     dry_run |-> monitor.args.dry_run,
     issue |-> issue,
     unreported |-> IF issue = "failed" THEN monitor.new_bills ELSE <<>>,
     exit_code |-> code]

Return(issue, code) ==
    /\ monitor' = [at |-> "idle"]
    /\ last_run' = RunSummary(issue, code)

\* lines 1058-1108: the arguments of a run; main() returns 1 when the API key
\* or the Supabase client is missing
StartRun ==
    /\ monitor.at = "idle"
    /\ \E a \in MonitorArgs, configured \in BOOLEAN :
          IF configured
          THEN /\ monitor' = [at |-> "scan", args |-> a, fault |-> "none",
                              processed_ids |-> {}, new_bills |-> <<>>,
                              skipped_bills |-> <<>>, scored |-> <<>>]
               /\ UNCHANGED last_run
          ELSE /\ UNCHANGED monitor
               /\ last_run' = [mode |-> "none", exit_code |-> 1]
    /\ effects' = {}
    /\ UNCHANGED <<legiscan, processed_bills, dataset_hashes>>
    /\ UNCHANGED <<calcVars, mainVars, dbVars, writers>>

\* line 1097: run_search_scan
RunSearchScan ==
    /\ monitor.at = "scan"
    /\ monitor.args.search
    /\ \E fault \in Faults, states \in BOOLEAN :
          LET res == run_search_scan(legiscan, processed_bills, states,
                                     <<"income tax rate">>, fault, monitor.args.dry_run)
          IN  /\ monitor' = [monitor EXCEPT
                                !.at = "digest",
                                !.fault = fault,
                                !.processed_ids = get_processed_bill_ids(processed_bills,
                                                                         fault),
                                !.new_bills = res.new_bills,
                                !.skipped_bills = res.skipped_bills]
              /\ processed_bills' = save_processed_bills(processed_bills, res.saves,
                                                         "not_relevant", fault)
              /\ effects' = effects \cup EffectsOf("upsert processed_bills", res.saves)
    /\ UNCHANGED <<legiscan, dataset_hashes, last_run>>
    /\ UNCHANGED <<calcVars, mainVars, dbVars, writers>>

\* line 1108: run_dataset_scan
RunDatasetScan ==
    /\ monitor.at = "scan"
    /\ ~monitor.args.search
    /\ \E fault \in Faults :
          LET res == run_dataset_scan(legiscan, processed_bills, dataset_hashes, fault,
                                      monitor.args.dry_run)
          IN  /\ monitor' = [monitor EXCEPT
                                !.at = "digest",
                                !.fault = fault,
                                !.processed_ids = get_processed_bill_ids(processed_bills,
                                                                         fault),
                                !.new_bills = res.new_bills,
                                !.skipped_bills = res.skipped_bills]
              /\ processed_bills' = save_processed_bills(processed_bills, res.saves,
                                                         "not_relevant", fault)
              /\ dataset_hashes' = save_dataset_hashes(dataset_hashes, res.hash_saves,
                                                       legiscan, fault)
              /\ effects' = effects \cup EffectsOf("upsert processed_bills", res.saves)
                                    \cup EffectsOf("upsert dataset_hashes", res.hash_saves)
    /\ UNCHANGED <<legiscan, last_run>>
    /\ UNCHANGED <<calcVars, mainVars, dbVars, writers>>

\* lines 1110-1211: the scores, the digest issue and the rows of its bills
Digest ==
    /\ monitor.at = "digest"
    /\ \E high \in SUBSET Range(monitor.new_bills), created \in BOOLEAN,
          fault \in {"none", "write"} :
          LET scored_new == scored_sorted(monitor.new_bills, high)
              to_encode == /\ monitor.args.auto_encode
                           /\ monitor' = [monitor EXCEPT !.at = "encode",
                                                         !.scored = scored_new]
                           /\ UNCHANGED last_run
          IN  IF scored_new = <<>>
              THEN Return("none", 0) /\ UNCHANGED <<processed_bills, effects>>
              ELSE IF ~writes_allowed(monitor.args.dry_run)
                   THEN /\ to_encode \/ (~monitor.args.auto_encode /\ Return("none", 0))
                        /\ UNCHANGED <<processed_bills, effects>>
              ELSE IF ~created
                   THEN /\ Return("failed", 1)
                        /\ effects' = effects \cup {Effect("gh issue create", 0)}
                        /\ UNCHANGED processed_bills
              ELSE /\ to_encode \/ (~monitor.args.auto_encode /\ Return("created", 0))
                   /\ processed_bills' = save_processed_bills(processed_bills,
                                                              BillIdsOf(scored_new),
                                                              "none", fault)
                   /\ effects' = effects \cup {Effect("gh issue create", 0)}
                                 \cup EffectsOf("upsert processed_bills",
                                                BillIdsOf(scored_new))
    /\ UNCHANGED <<legiscan, dataset_hashes>>
    /\ UNCHANGED <<calcVars, mainVars, dbVars, writers>>

\* lines 980-1055: run_auto_encode, called with dry_run=True from line 1189
\* and with dry_run=False from line 1216; its updates set the column
\* auto_encode_status, which the rows of the model leave out
RunAutoEncode ==
    /\ monitor.at = "encode"
    /\ \E already_encoded_ids \in {{}, {101}} :
          LET candidates == BillIdsOf(encode_candidates(monitor.scored,
                                                        already_encoded_ids,
                                                        EncodeThreshold, EncodeMax))
          IN  IF candidates = <<>> \/ ~writes_allowed(monitor.args.dry_run)
              THEN UNCHANGED effects
              ELSE effects' = effects \cup encode_effects(candidates)
    /\ Return(IF monitor.args.dry_run THEN "none" ELSE "created", 0)
    /\ UNCHANGED <<legiscan, processed_bills, dataset_hashes>>
    /\ UNCHANGED <<calcVars, mainVars, dbVars, writers>>

NextMonitor ==
    \/ StartRun
    \/ RunSearchScan
    \/ RunDatasetScan
    \/ Digest
    \/ RunAutoEncode

SpecMonitor == InitMonitor /\ [][NextMonitor]_vars

(***************************************************************************)
(* Properties of the winners/losers calculator.                            *)
(***************************************************************************)
BucketKeys == <<"loseMore5Pct", "loseLess5Pct", "noChange", "gainLess5Pct", "gainMore5Pct">>

\* weighted number of people of the households selected by S
PeopleOf(S) ==
    LET people == [j \in 1 .. Len(households) |-> households[j].household_count_people]
        w == [j \in 1 .. Len(households) |-> households[j].household_weight]
    IN  WSum(Len(households), people, w, S)

RowsOfDecile(d) == {j \in 1 .. Len(households) : households[j].household_income_decile = d}

PopulatedDeciles == {d \in Deciles : PeopleOf(RowsOfDecile(d)) # 0}

BucketSum ==
    LET wl == winners_losers.value
    IN  RAdd(RAdd(RAdd(RAdd(wl.loseMore5Pct, wl.loseLess5Pct), wl.noChange),
                  wl.gainLess5Pct), wl.gainMore5Pct)

\* C1 as stated: the five aggregate fractions of compute_winners_losers sum
\* to 1.0 for any non-empty household input.
C1_FractionsSumToOne ==
    winners_losers.computed => BucketSum = FromInt(1)

\* C1: the five aggregate fractions of compute_winners_losers sum to k/10,
\* where k is the number of deciles 1..10 whose households have a non-zero
\* weighted number of people; the sum is 1.0 only when all ten deciles are
\* populated.
C1_FractionsSumToPopulatedShare ==
    winners_losers.computed => BucketSum = Frac(Cardinality(PopulatedDeciles), 10)

C1_Witness ==
    /\ winners_losers.computed
    /\ Cardinality(PopulatedDeciles) = 2
    /\ \E j \in 1 .. Len(households) : income_change[j] = Frac(5, 100)

\* the people-weighted proportion of decile d in bucket k, from the inputs
ProportionOf(d, k) ==
    LET rows == RowsOfDecile(d)
        in_bucket == {j \in rows :
                         /\ RLt(BOUNDS[k], income_change[j])
                         /\ RLe(income_change[j], BOUNDS[k + 1])}
    IN  IF rows = {} \/ PeopleOf(rows) = 0 THEN Zero
        ELSE Frac(PeopleOf(in_bucket), PeopleOf(rows))

\* C2: the aggregate of each bucket is the sum of its ten per-decile
\* people-weighted proportions divided by 10, and a decile with zero people
\* has proportion 0.0 in every bucket while staying in the divisor.
C2_AggregateIsMeanOfTenDeciles ==
    (winners_losers.computed /\ pc = "decile") =>
        LET wl == winners_losers.value
            dec == wl.intraDecile.deciles
        IN  /\ DOMAIN dec = {Str(d) : d \in Deciles}
            /\ \A k \in 1 .. 5 :
                  /\ \A d \in Deciles : dec[Str(d)][BucketKeys[k]] = ProportionOf(d, k)
                  /\ wl[BucketKeys[k]] =
                        RDiv(RSumSeq([d \in Deciles |-> dec[Str(d)][BucketKeys[k]]], 10),
                             FromInt(10))
                  /\ wl.intraDecile.all[BucketKeys[k]] = wl[BucketKeys[k]]
            /\ \A d \in Deciles \ PopulatedDeciles :
                  \A k \in 1 .. 5 : dec[Str(d)][BucketKeys[k]] = Zero

C2_Witness ==
    /\ winners_losers.computed
    /\ \E d \in Deciles : RowsOfDecile(d) # {} /\ d \notin PopulatedDeciles
    /\ \E k \in 1 .. 5 : winners_losers.value[BucketKeys[k]] = Frac(1, 10)

\* the buckets a relative change x is classified into
BucketsOf(x) == {k \in 1 .. 5 : in_group(x, BOUNDS[k], BOUNDS[k + 1])}

\* C3: every household relative change is in exactly one of the five
\* buckets, the one with lower < x <= upper.
C3_ExactlyOneBucket ==
    winners_losers.computed =>
        \A j \in 1 .. Len(households) :
            /\ Cardinality(BucketsOf(income_change[j])) = 1
            /\ \A k \in 1 .. 5 :
                  k \in BucketsOf(income_change[j]) <=>
                      (RLt(BOUNDS[k], income_change[j]) /\ RLe(income_change[j], BOUNDS[k + 1]))

C3_Witness ==
    /\ winners_losers.computed
    /\ \E j \in 1 .. Len(households) : income_change[j] = Frac(-1, 1000)
    /\ \E j \in 1 .. Len(households) : income_change[j] = Frac(5, 100)

ScenarioIncomes ==
    /\ Len(households) = 2
    /\ households[1].baseline_income = 100 /\ households[1].reform_income = 105
    /\ households[2].baseline_income = 1000 /\ households[2].reform_income = 950

\* C4 as stated: baseline income [100, 1000] and reform income [105, 950]
\* give the relative change [0.05, -0.05].
C4_ScenarioIsFivePercent ==
    (winners_losers.computed /\ ScenarioIncomes) =>
        income_change = <<Frac(5, 100), Frac(-5, 100)>>

\* C4: baseline income [100, 1000] and reform income [105, 950] give the
\* relative change [0.10, -0.10]: the formula adds the raw difference to the
\* floored reform value, so the difference is counted twice.
C4_ScenarioIsTenPercent ==
    (winners_losers.computed /\ ScenarioIncomes) =>
        income_change = <<Frac(10, 100), Frac(-10, 100)>>

C4_Witness ==
    /\ winners_losers.computed
    /\ ScenarioIncomes
    /\ households[1].household_income_decile = 1
    /\ households[2].household_income_decile = 10

\* decile d has people and every household of d that carries people has the
\* relative change x
DecileAllAt(d, x) ==
    /\ d \in PopulatedDeciles
    /\ \A j \in RowsOfDecile(d) : PeopleOf({j}) # 0 => income_change[j] = x

DecileShare(d, key) == winners_losers.value.intraDecile.deciles[Str(d)][key]

\* C5 as stated: a relative change of exactly 0.05 is counted in "Gain less
\* than 5%" and one of exactly -0.05 in "Lose less than 5%".
C5_BoundaryBucketsAsStated ==
    winners_losers.computed =>
        \A d \in Deciles :
            /\ DecileAllAt(d, Frac(5, 100)) => DecileShare(d, "gainLess5Pct") = FromInt(1)
            /\ DecileAllAt(d, Frac(-5, 100)) => DecileShare(d, "loseLess5Pct") = FromInt(1)

\* C5: a relative change of exactly 0.05 is counted in "Gain less than 5%"
\* and one of exactly -0.05 in "Lose more than 5%" (the upper bound of each
\* bucket is inclusive).
C5_BoundaryBuckets ==
    (winners_losers.computed /\ pc = "decile") =>
        \A d \in Deciles :
            /\ DecileAllAt(d, Frac(5, 100)) =>
                  /\ DecileShare(d, "gainLess5Pct") = FromInt(1)
                  /\ DecileShare(d, "gainMore5Pct") = Zero
            /\ DecileAllAt(d, Frac(-5, 100)) =>
                  /\ DecileShare(d, "loseMore5Pct") = FromInt(1)
                  /\ DecileShare(d, "loseLess5Pct") = Zero

C5_Witness ==
    /\ winners_losers.computed
    /\ DecileAllAt(1, Frac(5, 100))
    /\ DecileAllAt(10, Frac(-5, 100))


(***************************************************************************)
(* Properties of the relative-change formula.                              *)
(***************************************************************************)
\* (capped_r - capped_b) / capped_b with capped_b = max(b, 1) and
\* capped_r = max(r, 1) + (r - b)
CappedRelativeChange(b, r) ==
    LET capped_b == IF b > 1 THEN b ELSE 1
        capped_r == (IF r > 1 THEN r ELSE 1) + (r - b)
    IN  RDiv(RSub(FromInt(capped_r), FromInt(capped_b)), FromInt(capped_b))

\* C6: the statewide winners/losers code and the district code both compute
\* (capped_r - capped_b) / capped_b with capped_b = max(b, 1) and
\* capped_r = max(r, 1) + (r - b); the divisor is at least 1 and the result is
\* a finite number for every household.
C6_SameCappedFormula ==
    /\ winners_losers.computed =>
          \A j \in 1 .. Len(households) :
              /\ capped_baseline_income(households[j].baseline_income) >= 1
              /\ IsFinite(income_change[j])
              /\ income_change[j] = CappedRelativeChange(households[j].baseline_income,
                                                         households[j].reform_income)
    /\ (district_impacts.computed /\ district_data_available(households, state)) =>
          \A j \in 1 .. Len(households) :
              /\ IsFinite(relative_change[j])
              /\ relative_change[j] = CappedRelativeChange(households[j].baseline_income,
                                                           households[j].reform_income)

C6_Witness ==
    /\ winners_losers.computed
    /\ district_impacts.computed
    /\ Len(relative_change) = Len(households)
    /\ \E j \in 1 .. Len(households) :
          households[j].baseline_income < 1 /\ households[j].reform_income > 1
    /\ \E j \in 1 .. Len(households) :
          households[j].baseline_income > 1 /\ households[j].reform_income < 1

\* C7: for a fixed baseline b >= 1 and reform values r1 < r2 (also below 1
\* or negative), the relative change for r2 is strictly greater than the one
\* for r1.
C7_StrictlyMonotonicInReform ==
    winners_losers.computed =>
        \A i, j \in 1 .. Len(households) :
            (/\ households[i].baseline_income = households[j].baseline_income
             /\ households[i].baseline_income >= 1
             /\ households[i].reform_income < households[j].reform_income)
            => RLt(income_change[i], income_change[j])

C7_Witness ==
    /\ winners_losers.computed
    /\ \E i, j \in 1 .. Len(households) :
          /\ households[i].baseline_income = households[j].baseline_income
          /\ households[i].baseline_income >= 1
          /\ households[i].reform_income < 0
          /\ households[j].reform_income = 0

(***************************************************************************)
(* Properties of degenerate groups and of the poverty record.              *)
(***************************************************************************)
PersonWeight(S) ==
    LET w == [i \in 1 .. Len(persons) |-> persons[i].person_weight]
    IN  WCount(Len(persons), w, S)

Children == {i \in 1 .. Len(persons) : persons[i].age < 18}

HouseholdWeight(S) ==
    LET w == [j \in 1 .. Len(households) |-> households[j].household_weight]
    IN  WCount(Len(households), w, S)

PovertyIsNumber(rec) ==
    /\ IsFinite(rec.baselineRate) /\ IsFinite(rec.reformRate)
    /\ IsFinite(rec.change) /\ IsFinite(rec.percentChange)

\* C8: in every calculator a group with total weight zero or with no rows
\* yields 0.0 for its mean or proportion; no calculator raises or returns
\* NaN.
C8_DegenerateGroupsYieldZero ==
    /\ pc # "error"
    /\ poverty_impact.computed =>
          /\ PovertyIsNumber(poverty_impact.value)
          /\ PersonWeight(1 .. Len(persons)) = 0 =>
                /\ poverty_impact.value.baselineRate = Zero
                /\ poverty_impact.value.reformRate = Zero
    /\ child_poverty_impact.computed =>
          /\ PovertyIsNumber(child_poverty_impact.value)
          /\ PersonWeight(Children) = 0 =>
                /\ child_poverty_impact.value.baselineRate = Zero
                /\ child_poverty_impact.value.reformRate = Zero
    /\ winners_losers.computed =>
          \A d \in Deciles \ PopulatedDeciles :
              \A k \in 1 .. 5 : DecileShare(d, BucketKeys[k]) = Zero
    /\ decile_impact.computed =>
          \A k \in DOMAIN decile_impact.value.average :
              /\ IsFinite(decile_impact.value.average[k])
              /\ (\A d \in 0 .. 10 : Str(d) = k /\ HouseholdWeight(RowsOfDecile(d)) = 0
                      => decile_impact.value.average[k] = Zero)
    /\ district_impacts.computed =>
          \A id \in DOMAIN district_impacts.value :
              /\ IsFinite(district_impacts.value[id].avgBenefit)
              /\ IsFinite(district_impacts.value[id].winnersShare)
              /\ IsFinite(district_impacts.value[id].losersShare)
              /\ IsFinite(district_impacts.value[id].povertyPctChange)
              /\ IsFinite(district_impacts.value[id].childPovertyPctChange)

\* change = reformRate - baselineRate and percentChange = change /
\* baselineRate * 100, or 0 when baselineRate is exactly 0
PercentChangeRule(baseline_rate, reform_rate) ==
    IF baseline_rate = Zero THEN Zero
    ELSE RDiv(RMul(RSub(reform_rate, baseline_rate), FromInt(100)), baseline_rate)

PovertyRecordRule(rec) ==
    /\ rec.change = RSub(rec.reformRate, rec.baselineRate)
    /\ rec.percentChange = PercentChangeRule(rec.baselineRate, rec.reformRate)

\* C9: for baseline and reform poverty rates (numbers in [0, 1]) the poverty
\* record has change = reformRate - baselineRate and percentChange = change /
\* baselineRate * 100, with percentChange 0 when baselineRate is exactly 0;
\* the district povertyPctChange and childPovertyPctChange follow the same
\* rule before rounding.
C9_PercentChangeRule ==
    /\ (poverty_impact.computed /\ IsFinite(poverty_impact.value.baselineRate)) =>
          PovertyRecordRule(poverty_impact.value)
    /\ (child_poverty_impact.computed /\ IsFinite(child_poverty_impact.value.baselineRate)) =>
          PovertyRecordRule(child_poverty_impact.value)
    /\ district_locals.computed =>
          \A id \in DOMAIN district_locals.value :
              LET loc == district_locals.value[id]
              IN  /\ loc.has_poverty =>
                        /\ loc.poverty_pct_change =
                              PercentChangeRule(loc.poverty_baseline, loc.poverty_reform)
                        /\ district_impacts.value[id].povertyPctChange =
                              Round(loc.poverty_pct_change, 2)
                  /\ (loc.has_child_poverty /\ IsFinite(loc.child_poverty_baseline)) =>
                        /\ loc.child_poverty_pct_change =
                              PercentChangeRule(loc.child_poverty_baseline,
                                                loc.child_poverty_reform)
                        /\ district_impacts.value[id].childPovertyPctChange =
                              Round(loc.child_poverty_pct_change, 2)

C9_Witness ==
    /\ poverty_impact.computed
    /\ poverty_impact.value.baselineRate = Frac(1, 2)
    /\ child_poverty_impact.computed
    /\ child_poverty_impact.value.baselineRate = FromInt(1)
    /\ child_poverty_impact.value.percentChange = FromInt(-100)
    /\ district_locals.computed
    /\ \E id \in DOMAIN district_locals.value :
          /\ district_locals.value[id].has_poverty
          /\ district_locals.value[id].poverty_baseline = Zero
          /\ district_locals.value[id].poverty_reform = FromInt(1)
          /\ district_impacts.value[id].povertyPctChange = Zero
    /\ \E id \in DOMAIN district_locals.value :
          /\ district_locals.value[id].has_child_poverty
          /\ district_impacts.value[id].childPovertyPctChange = FromInt(-100)

(***************************************************************************)
(* Properties of the decile impact record.                                 *)
(***************************************************************************)
DecileKeys == {"1", "2", "3", "4", "5", "6", "7", "8", "9", "10"}

\* C10: the decile impact record always has exactly the keys "1" to "10" in
\* both relative and average, and a decile with no household has the value
\* 0.0 under both.
C10_AlwaysTenDecileKeys ==
    decile_impact.computed =>
        /\ DOMAIN decile_impact.value.relative = DecileKeys
        /\ DOMAIN decile_impact.value.average = DecileKeys
        /\ \A d \in Deciles :
              RowsOfDecile(d) = {} =>
                  /\ decile_impact.value.relative[Str(d)] = Zero
                  /\ decile_impact.value.average[Str(d)] = Zero


(***************************************************************************)
(* Households outside the deciles 1..10.                                   *)
(***************************************************************************)
AtLeast(lo, h) == h.household_income_decile >= lo

\* the household table without the rows whose decile is below lo
WithoutDecilesBelow(hh, lo) == SelectSeq(hh, LAMBDA h : AtLeast(lo, h))

\* compute_winners_losers on a table, with its own relative changes
WinnersLosersOf(hh) ==
    compute_winners_losers(hh, [j \in 1 .. Len(hh) |->
                                   WL_income_change(hh[j].baseline_income,
                                                    hh[j].reform_income)])

ProperDecileKeys == {Str(d) : d \in Deciles}

\* a record of decile values without its key "0"
WithoutKeyZero(f) == [k \in DOMAIN f \ {"0"} |-> f[k]]

C11_WitnessNegative ==
    /\ decile_impact.computed
    /\ \E j \in 1 .. Len(households) : households[j].household_income_decile = -1
    /\ \E j \in 1 .. Len(households) : households[j].household_income_decile = 1

(***************************************************************************)
(* Properties of the budgetary calculator.                                 *)
(***************************************************************************)
\* the sum of the household sampling weights, as a real number
HouseholdWeightTotal ==
    Frac(SumF([j \in 1 .. Len(households) |-> households[j].household_weight],
              Len(households)), weight_den)

\* the sum over the tax units of weight * (reform tax - baseline tax)
WeightedTaxDifference ==
    RSumSeq([i \in 1 .. Len(tax_units) |->
                Frac(tax_units[i].tax_unit_weight
                        * (tax_units[i].reform_tax - tax_units[i].baseline_tax), weight_den)],
            Len(tax_units))

\* the reform's tax total under the reform simulation's weights minus the
\* baseline's tax total under the baseline simulation's weights
RevenueDifferenceOwnWeights ==
    RSumSeq([i \in 1 .. Len(tax_units) |->
                Frac(tax_units[i].reform_tax_unit_weight * tax_units[i].reform_tax
                        - tax_units[i].tax_unit_weight * tax_units[i].baseline_tax,
                     weight_den)],
            Len(tax_units))

SameTaxUnitWeights ==
    \A i \in 1 .. Len(tax_units) :
        tax_units[i].reform_tax_unit_weight = tax_units[i].tax_unit_weight

AllGeoIdsZero == \A j \in 1 .. Len(households) : households[j].cd_geoid = 0

\* C13: when every household's congressional-district geo-id is 0,
\* compute_district_impacts returns an empty mapping, and the assembled impact
\* record carries no districtImpacts key.
C13_NoGeoDataNoDistrictKey ==
    AllGeoIdsZero =>
        /\ district_impacts.computed => DOMAIN district_impacts.value = {}
        /\ impacts.computed => "districtImpacts" \notin DOMAIN impacts.value

\* a state with districts, a table without geo-ids, and the record assembled
C13_Witness ==
    /\ AllGeoIdsZero
    /\ state = "RI"
    /\ impacts.computed
    /\ district_impacts.value = <<>>
    /\ DOMAIN impacts.value = {"computed", "computedAt", "budgetaryImpact", "povertyImpact",
                               "childPovertyImpact", "winnersLosers", "decileImpact"}

\* the district geo-ids of the state
DistrictGeoIds(st) == {STATE_FIPS[st] * 100 + n : n \in 1 .. STATE_DISTRICTS[st]}

InSomeDistrict(st, row) == row.cd_geoid \in DistrictGeoIds(st)

\* the tables restricted to the rows whose geo-id is one of the state's districts
MatchedHouseholds == SelectSeq(households, LAMBDA h : InSomeDistrict(state, h))

MatchedPersons == SelectSeq(persons, LAMBDA q : InSomeDistrict(state, q))

RelativeChangesOf(hh) ==
    [j \in 1 .. Len(hh) |->
        district_relative_change(hh[j].baseline_income, hh[j].reform_income)]

ProbedDistrictNumbers == 0 .. 4

\* C14: the result of compute_district_impacts has the key "{STATE}-{n}" if
\* and only if 1 <= n <= N and some household has geo-id state_fips*100 + n,
\* and the households whose geo-id matches no district 1..N contribute to no
\* entry: the result is the one of the table without them.
C14_KeysAreMatchedDistricts ==
    (pc = "assembled" /\ state \in DOMAIN STATE_FIPS) =>
        /\ \A n \in ProbedDistrictNumbers :
              (district_id(state, n) \in DOMAIN district_impacts.value) <=>
                  /\ 1 <= n /\ n <= STATE_DISTRICTS[state]
                  /\ \E j \in 1 .. Len(households) :
                        households[j].cd_geoid = STATE_FIPS[state] * 100 + n
        /\ DOMAIN district_impacts.value
              \subseteq {district_id(state, n) : n \in ProbedDistrictNumbers}
        /\ district_impacts.value =
              compute_district_impacts(MatchedHouseholds, MatchedPersons,
                                       RelativeChangesOf(MatchedHouseholds),
                                       weight_den, state, FALSE).impacts

\* households in district 1 and under the geo-id of a district 3 that the
\* state does not have: only RI-1 gets an entry
C14_Witness ==
    /\ district_impacts.computed
    /\ state = "RI"
    /\ \E j \in 1 .. Len(households) : households[j].cd_geoid = 4401
    /\ \E j \in 1 .. Len(households) : households[j].cd_geoid = 4403
    /\ DOMAIN district_impacts.value = {"RI-1"}

\* the rows of a table whose geo-id is the one of district n of the state
InDistrict(st, n, row) == row.cd_geoid = STATE_FIPS[st] * 100 + n

DistrictHouseholds(n) == SelectSeq(households, LAMBDA h : InDistrict(state, n, h))

DistrictPersons(n) == SelectSeq(persons, LAMBDA q : InDistrict(state, n, q))

DistrictNumbersComputed ==
    {n \in 1 .. 2 : district_id(state, n) \in DOMAIN district_locals.value}

\* the unrounded shares of a district are those of compute_winners_losers on
\* the households of the district
DistrictSharesAsStatewide ==
    \A n \in DistrictNumbersComputed :
        LET loc == district_locals.value[district_id(state, n)]
            wl == WinnersLosersOf(DistrictHouseholds(n))
        IN  /\ loc.winners_share = RAdd(wl.gainLess5Pct, wl.gainMore5Pct)
            /\ loc.losers_share = RAdd(wl.loseLess5Pct, wl.loseMore5Pct)

\* the unrounded poverty changes of a district are the percentChange of
\* compute_poverty_impact on the persons of the district
DistrictPovertyAsStatewide ==
    \A n \in DistrictNumbersComputed :
        \A zero_raises \in BOOLEAN :
            LET loc == district_locals.value[district_id(state, n)]
                all == compute_poverty_impact(DistrictPersons(n), FALSE, zero_raises)
                child == compute_poverty_impact(DistrictPersons(n), TRUE, zero_raises)
            IN  /\ ~all.raised
                /\ all.value.percentChange = loc.poverty_pct_change
                /\ ~child.raised
                /\ child.value.percentChange = loc.child_poverty_pct_change

\* C15: for every district, the district code path computes the values of the
\* statewide code path applied to the district's rows: winnersShare and
\* losersShare are the sums of the two gain and the two loss fractions of
\* compute_winners_losers, and the poverty changes are the percentChange of
\* compute_poverty_impact, before rounding.
C15_DistrictPathIsStatewidePath ==
    district_locals.computed => DistrictSharesAsStatewide /\ DistrictPovertyAsStatewide

(***************************************************************************)
(* The weights of the reform simulation.                                   *)
(***************************************************************************)
\* the impacts dict of a run over the given tables in which no step raises
ImpactsOf(hh, pp, tu) ==
    assemble_impacts(compute_budgetary_impact(hh, tu, weight_den),
                     compute_poverty_impact(pp, FALSE, FALSE).value,
                     compute_poverty_impact(pp, TRUE, FALSE).value,
                     WinnersLosersOf(hh),
                     compute_decile_impact(hh),
                     compute_district_impacts(hh, pp, RelativeChangesOf(hh), weight_den,
                                              state, FALSE).impacts)

\* the tables with every weight of the reform simulation replaced by rw
HouseholdsReweighted(rw) ==
    [j \in 1 .. Len(households) |-> [households[j] EXCEPT !.reform_household_weight = rw]]

PersonsReweighted(rw) ==
    [i \in 1 .. Len(persons) |-> [persons[i] EXCEPT !.reform_person_weight = rw]]

TaxUnitsReweighted(rw) ==
    [i \in 1 .. Len(tax_units) |-> [tax_units[i] EXCEPT !.reform_tax_unit_weight = rw]]

\* C16: no output of the calculators depends on the weights carried by the
\* reform simulation: a run that differs only in the reform table's weights
\* gives the same impact record.
C16_IndependentOfReformWeights ==
    impacts.computed =>
        \A rw \in ReformWeights :
            impacts.value = ImpactsOf(HouseholdsReweighted(rw), PersonsReweighted(rw),
                                      TaxUnitsReweighted(rw))

(***************************************************************************)
(* Properties of write_to_supabase.                                        *)
(***************************************************************************)
\* the multi-year archive that a row holds: the dict impacts_by_year of its
\* model_notes, stored as a dict or as the text of one
ArchiveOfNotes(notes) ==
    LET d == IF notes.kind = "str" THEN notes.loads ELSE notes
    IN  IF d.kind = "dict" /\ "impacts_by_year" \in DOMAIN d.items
           /\ d.items["impacts_by_year"].kind = "dict"
        THEN d.items["impacts_by_year"].items
        ELSE <<>>

ArchiveOf(table) ==
    IF WrittenReform \in DOMAIN table THEN ArchiveOfNotes(table[WrittenReform].model_notes)
    ELSE <<>>

LastCall == call_log[Len(call_log)]

\* the last two calls were multi-year writes of 2026 and then of 2027
Wrote2026Then2027 ==
    /\ Len(call_log) >= 2
    /\ LET first == call_log[Len(call_log) - 1]
       IN  /\ first.multi_year /\ ~first.raised /\ first.year = 2026
           /\ LastCall.multi_year /\ ~LastCall.raised /\ LastCall.year = 2027

Keeps2026 ==
    Wrote2026Then2027 =>
        /\ "2026" \in DOMAIN ArchiveOf(reform_impacts)
        /\ ArchiveOf(reform_impacts)["2026"] = year_entry(call_log[Len(call_log) - 1].impacts)
        /\ ArchiveOf(reform_impacts)["2027"] = year_entry(LastCall.impacts)

\* a multi-year call leaves the entries of the other years as they were
MultiYearFrame ==
    (call_log' # call_log /\ call_log'[Len(call_log')].multi_year) =>
        \A k \in DOMAIN ArchiveOf(reform_impacts) :
            k # YearStr(call_log'[Len(call_log')].year) =>
                /\ k \in DOMAIN ArchiveOf(reform_impacts')
                /\ ArchiveOf(reform_impacts')[k] = ArchiveOf(reform_impacts)[k]

\* C20: after a multi-year write_to_supabase for 2026 and then one for 2027,
\* impacts_by_year["2026"] is present and equal to the record of the first
\* call; a multi-year write for year Y changes no impacts_by_year entry other
\* than Y.
C20_MultiYearKeepsOtherYears == []Keeps2026 /\ [][MultiYearFrame]_vars

\* an archive with the year 2025, then 2026 and 2027 written: all three there
C20_Witness ==
    /\ Wrote2026Then2027
    /\ DOMAIN ArchiveOf(reform_impacts) = {"2025", "2026", "2027"}
    /\ ArchiveOf(reform_impacts)["2026"] # ArchiveOf(reform_impacts)["2027"]

\* a multi-year call of the log that succeeded and whose year no later
\* successful multi-year call wrote again
LastWriteOfYear(k) ==
    /\ call_log[k].multi_year
    /\ ~call_log[k].raised
    /\ \A j \in (k + 1) .. Len(call_log) :
          ~(call_log[j].multi_year /\ ~call_log[j].raised
            /\ call_log[j].year = call_log[k].year)

\* C21: after any sequence of write_to_supabase calls of both modes for one
\* reform, a year entry written to impacts_by_year is still present and
\* unchanged unless a later multi-year call wrote the same year.
C21_ArchiveSurvivesMixedCalls ==
    \A k \in 1 .. Len(call_log) :
        LastWriteOfYear(k) =>
            /\ YearStr(call_log[k].year) \in DOMAIN ArchiveOf(reform_impacts)
            /\ ArchiveOf(reform_impacts)[YearStr(call_log[k].year)]
                  = year_entry(call_log[k].impacts)

\* the same call made once and made twice in a row on the current table
Once(year, multi_year, imp) ==
    write_to_supabase(reform_impacts, WrittenReform, imp, Leaf("params"), year, multi_year)

Twice(year, multi_year, imp) ==
    write_to_supabase(Once(year, multi_year, imp).table, WrittenReform, imp, Leaf("params"),
                      year, multi_year)

RetryIsIdempotent ==
    \A year \in WriteYears, multi_year \in BOOLEAN, imp \in WriteImpacts :
        /\ Twice(year, multi_year, imp).raised = Once(year, multi_year, imp).raised
        /\ Twice(year, multi_year, imp).table = Once(year, multi_year, imp).table

\* the last two calls of the log had the same arguments and both succeeded
RetriedCall ==
    /\ Len(call_log) >= 2
    /\ LET first == call_log[Len(call_log) - 1]
       IN  /\ ~first.raised /\ ~LastCall.raised
           /\ first.year = LastCall.year
           /\ first.multi_year = LastCall.multi_year
           /\ first.impacts = LastCall.impacts

\* a successful call that repeats the successful call before it changes no row
RetryFrame ==
    (call_log' # call_log /\ RetriedCall') => reform_impacts' = reform_impacts

\* C22: write_to_supabase called twice in a row with the same reform id,
\* impacts, reform params, year and mode leaves the table reform_impacts
\* (model_notes and impacts_by_year included) as one call leaves it, and the
\* second call raises exactly when the first one does.
C22_IdempotentUnderRetry == []RetryIsIdempotent /\ [][RetryFrame]_vars

\* a multi-year call repeated on a row that held the archive of 2025 as text
C22_Witness ==
    /\ RetriedCall
    /\ LastCall.multi_year
    /\ DOMAIN ArchiveOf(reform_impacts) = {"2025", YearStr(LastCall.year)}
    /\ reform_impacts[WrittenReform].model_notes.kind = "dict"

\* C25: if two multi-year write_to_supabase calls for the same reform and
\* different years run concurrently, with their select and upsert steps
\* interleaved in any order, the final impacts_by_year holds the entries of
\* both years.
C25_ConcurrentWritesKeepBothYears ==
    (writers # <<>> /\ \A w \in Writers : writers[w].at = "returned") =>
        \A w \in Writers :
            /\ YearStr(writers[w].year) \in DOMAIN ArchiveOf(reform_impacts)
            /\ ArchiveOf(reform_impacts)[YearStr(writers[w].year)]
                  = year_entry(writers[w].impacts)

(***************************************************************************)
(* Properties of main().                                                   *)
(***************************************************************************)
LoadedIds == {reforms[k].id : k \in 1 .. Len(reforms)}

\* the functions of the simulation and calculator steps
ComputationSteps == {"run_simulations"} \cup RaisingCalculators \cup {"calculators"}

CalledFor(fn, id) == \E c \in calls : c.fn = fn /\ c.id = id

IsErrorStatus(status) == Contains(status, "error")

\* the row of a reform as it was when the run started
RowAtStart(id) ==
    LET k == CHOOSE j \in 1 .. Len(reforms) : reforms[j].id = id
    IN  StoredRow(id, reforms[k].computed, StoredParams(id),
                  StoredNotesOf(reforms[k].computed))

\* the loop of main() has ended
LoopDone == main_pc.at = "exit" /\ supabase = "client" /\ reforms # <<>> /\ ~args.list

\* C17: if the simulation or a calculator raises while a reform is processed,
\* neither write_to_supabase nor update_research_status is called for it, its
\* row and its research status stay as they were, and its status is an error,
\* never "computed".
C17_RaiseMeansNoWrite ==
    \A c \in calls :
        (c.raised /\ c.fn \in ComputationSteps) =>
            /\ ~CalledFor("write_to_supabase", c.id)
            /\ ~CalledFor("update_research_status", c.id)
            /\ reform_impacts[c.id] = RowAtStart(c.id)
            /\ research[c.id] = "pending"
            /\ c.id \in DOMAIN results
            /\ IsErrorStatus(results[c.id])
            /\ results[c.id] # "computed"

\* a reform without computed impacts whose poverty calculator raised, at the
\* end of the run
C17_Witness ==
    /\ LoopDone
    /\ \E c \in calls :
          /\ c.raised /\ c.fn = "compute_poverty_impact"
          /\ ~reform_impacts[c.id].computed
          /\ results[c.id] = "error: float division by zero"

\* C18: a failure while one reform is processed does not stop the loop or
\* change what is written for the others: at the end every loaded reform has
\* one status (skipped, computed or an error), a computed reform has its own
\* record in reform_impacts and the status in_review, a skipped reform has its
\* row as before, and no row holds the impacts of another reform.
C18_EveryReformGetsItsStatus ==
    LoopDone =>
        /\ DOMAIN results = LoadedIds
        /\ \A id \in LoadedIds :
              /\ results[id] \in {"skipped", "computed"} \/ IsErrorStatus(results[id])
              /\ results[id] = "computed" =>
                    /\ reform_impacts[id].id = id
                    /\ reform_impacts[id].computed
                    /\ reform_impacts[id].computed_at = Leaf(id)
                    /\ reform_impacts[id].budgetary_impact = Leaf(id)
                    /\ reform_impacts[id].district_impacts = Leaf(id)
                    /\ research[id] = "in_review"
              /\ results[id] = "skipped" =>
                    reform_impacts[id] = RowAtStart(id) /\ research[id] = "pending"
              /\ reform_impacts[id].computed_at \in {Leaf(id), RowAtStart(id).computed_at}

\* the first reform failed in its simulation and the second one was computed
C18_Witness ==
    /\ LoopDone
    /\ Len(reforms) = 2
    /\ IsErrorStatus(results[reforms[1].id])
    /\ \E c \in calls : c.raised /\ c.fn = "run_simulations" /\ c.id = reforms[1].id
    /\ results[reforms[2].id] = "computed"
    /\ reform_impacts[reforms[2].id].computed_at = Leaf(reforms[2].id)

SomeCallRaised == \E c \in calls : c.raised

\* C19 as stated: main returns a non-zero exit status only if the
\* computation of at least one reform failed in the run.
C19_NonZeroOnlyIfReformFailed ==
    main_pc.at = "exit" => (exit_code # 0 => SomeCallRaised)

\* C19: after the loop main returns 1 if some reform failed (its status is an
\* error) and 0 otherwise; it returns 0 in list mode; it also returns 1,
\* before any reform is processed, when there is no Supabase client or no
\* reform was loaded.
C19_ExitStatus ==
    main_pc.at = "exit" =>
        /\ exit_code \in {0, 1}
        /\ exit_code = 1 <=>
              \/ supabase = "none"
              \/ reforms = <<>>
              \/ ~args.list /\ SomeCallRaised
        /\ LoopDone => (exit_code = 1 <=> \E id \in LoadedIds : IsErrorStatus(results[id]))

\* a run that skipped one reform and computed another: exit status 0
C19_Witness ==
    /\ LoopDone
    /\ exit_code = 0
    /\ \E id \in LoadedIds : results[id] = "skipped"
    /\ \E id \in LoadedIds : results[id] = "computed"

\* a run without a Supabase client: exit status 1 and no reform touched
C19_WitnessNoClient ==
    /\ main_pc.at = "exit"
    /\ supabase = "none"
    /\ exit_code = 1
    /\ calls = {}

\* the calls main() made for a reform
CallsFor(id) == {c \in calls : c.id = id}

\* C26: a reform whose loaded record has computed = True is skipped when
\* --force is not given: no call is made for it, its row and its research
\* status stay as they were and its status is "skipped"; only such a reform
\* is skipped.  With --force it is processed: it is never "skipped", the year
\* detection or the simulation runs for it, and when it ends "computed" its
\* row holds the impacts of this run.
C26_SkipComputedUnlessForced ==
    \A k \in 1 .. Len(reforms) :
        LET id == reforms[k].id
        IN  /\ (reforms[k].computed /\ ~args.force) =>
                  /\ CallsFor(id) = {}
                  /\ reform_impacts[id] = RowAtStart(id)
                  /\ research[id] = "pending"
                  /\ id \in DOMAIN results => results[id] = "skipped"
            /\ (id \in DOMAIN results /\ results[id] = "skipped") =>
                  reforms[k].computed /\ ~args.force
            /\ (reforms[k].computed /\ args.force /\ id \in DOMAIN results) =>
                  /\ results[id] # "skipped"
                  /\ CallsFor(id) # {}
                  /\ results[id] = "computed" =>
                        /\ reform_impacts[id].computed_at = Leaf(id)
                        /\ reform_impacts[id].budgetary_impact = Leaf(id)
                        /\ research[id] = "in_review"

\* without --force: a computed reform was skipped and another one processed
C26_Witness ==
    /\ LoopDone
    /\ ~args.force
    /\ \E id \in LoadedIds : results[id] = "skipped" /\ reform_impacts[id] = RowAtStart(id)
    /\ \E id \in LoadedIds : results[id] = "computed"

\* with --force: a computed reform was recomputed and its row rewritten
C26_WitnessForced ==
    /\ LoopDone
    /\ args.force
    /\ \E k \in 1 .. Len(reforms) :
          /\ reforms[k].computed
          /\ results[reforms[k].id] = "computed"
          /\ reform_impacts[reforms[k].id].computed_at = Leaf(reforms[k].id)

\* the earliest start year of the period keys, 2026 without one below 2100
EarliestStartYear(reform_params) ==
    IF \E y \in reform_params.start_years : y < YearHorizon
    THEN Min({y \in reform_params.start_years : y < YearHorizon})
    ELSE DefaultYear

\* C27: when --year is not given, the analysis year used for a reform is the
\* earliest start year over the period keys of its reform params, and 2026
\* when there is none below 2100, also for reform params that hold the special
\* keys _use_reform and _skip_params: the year detection returns that year
\* for every loaded reform.
C27_YearIsEarliestStartYear ==
    /\ \A c \in calls : c.fn = "get_effective_year_from_params" => ~c.raised
    /\ (main_pc.at = "simulate" /\ args.year = 0) =>
          main_pc.sim_year = EarliestStartYear(StoredParams(CurrentReform.id))

\* the call fn was made for the reform and returned
Returned(fn, id) == \E c \in calls : c.fn = fn /\ c.id = id /\ ~c.raised

\* C28: the research status of a reform is "in_review" only after its
\* write_to_supabase returned, its status is "computed" only after the upsert
\* and the status update both succeeded, and a reform whose status is an
\* error has no computed = True record upserted by the run.
C28_StatusFollowsWrites ==
    \A id \in LoadedIds :
        /\ research[id] = "in_review" => Returned("write_to_supabase", id)
        /\ (id \in DOMAIN results /\ results[id] = "computed") =>
              /\ Returned("write_to_supabase", id)
              /\ Returned("update_research_status", id)
        /\ (id \in DOMAIN results /\ IsErrorStatus(results[id])) =>
              ~Returned("write_to_supabase", id)

\* C29: the reform_params that write_to_supabase upserts for a reform are the
\* reform_params that load_reforms_from_db loaded for it, special keys
\* included.
C29_ReformParamsUnaltered ==
    \A id \in LoadedIds :
        Returned("write_to_supabase", id) => reform_impacts[id].reform_params = StoredParams(id)

(***************************************************************************)
(* Properties of the LegiScan monitor.                                     *)
(***************************************************************************)
\* the scan of the current run has returned
Scanned == monitor.at \in {"digest", "encode"}

\* C23: in either scan mode, a bill whose id is in the set of processed bills
\* read from Supabase at the start of the run is never returned in new_bills,
\* and no bill id occurs more than once in new_bills, even when the bill
\* appears in several search results, datasets or sessions.
C23_NewBillsAreNewAndDistinct ==
    Scanned =>
        /\ \A i \in 1 .. Len(monitor.new_bills) :
              monitor.new_bills[i] \notin monitor.processed_ids
        /\ \A i, j \in 1 .. Len(monitor.new_bills) :
              i # j => monitor.new_bills[i] # monitor.new_bills[j]

\* a dataset scan of two sessions that both list the processed bill 101 and
\* the new bill 104 returned 104 once
C23_Witness ==
    /\ monitor.at = "digest"
    /\ ~monitor.args.search
    /\ monitor.processed_ids = {101}
    /\ \A k \in 1 .. Len(legiscan) : {101, 104} \subseteq Range(legiscan[k].bills)
    /\ {Effect("upsert dataset_hashes", legiscan[k].session_id) : k \in 1 .. Len(legiscan)}
          \subseteq effects
    /\ monitor.new_bills = <<104>>

\* the same for a search scan of all states, whose result lists every bill
\* once per session
C23_WitnessSearch ==
    /\ monitor.at = "digest"
    /\ monitor.args.search
    /\ monitor.fault = "none"
    /\ monitor.processed_ids = {101}
    /\ \A k \in 1 .. Len(legiscan) : {101, 104} \subseteq Range(legiscan[k].bills)
    /\ monitor.new_bills = <<104>>

\* a step of a dry run leaves the tables as they are and makes no request
\* to Supabase, no issue and no subprocess
DryRunFrame ==
    (monitor.at # "idle" /\ monitor.args.dry_run) =>
        /\ effects = {}
        /\ UNCHANGED <<processed_bills, dataset_hashes, effects>>

\* C24: a run with --dry-run performs no Supabase write (no upsert or update
\* of processed_bills, no upsert of dataset_hashes), creates no GitHub issue
\* and starts no encode-bill subprocess, in both scan modes and with or
\* without --auto-encode.
C24_DryRunWritesNothing == [][DryRunFrame]_vars

\* a dry run of the dataset scan with --auto-encode has skipped bill 102 as
\* not relevant, scored its new bills and has a candidate to encode
C24_Witness ==
    /\ monitor.at = "encode"
    /\ monitor.args.dry_run
    /\ ~monitor.args.search
    /\ monitor.skipped_bills = <<102>>
    /\ 102 \notin DOMAIN processed_bills
    /\ encode_candidates(monitor.scored, {}, EncodeThreshold, EncodeMax) # <<>>
    /\ effects = {}

\* the same for a search scan without --auto-encode, before the digest
C24_WitnessSearch ==
    /\ monitor.at = "digest"
    /\ monitor.args.dry_run
    /\ monitor.args.search
    /\ ~monitor.args.auto_encode
    /\ monitor.skipped_bills = <<102>>
    /\ monitor.new_bills # <<>>
    /\ 102 \notin DOMAIN processed_bills
    /\ effects = {}

\* C30: a relevant new bill found by a dataset scan that is no dry run is
\* never lost: if the creation of the digest issue fails in that run, the
\* bill is not saved to processed_bills, and the next dataset scan over the
\* same, unchanged datasets returns the bill in new_bills again.
C30_FoundBillIsFoundAgain ==
    /\ (monitor.at = "idle" /\ last_run.mode = "dataset" /\ ~last_run.dry_run
        /\ last_run.issue = "failed") =>
          effects \cap EffectsOf("upsert processed_bills", last_run.unreported) = {}
    /\ (/\ monitor.at = "digest"
        /\ ~monitor.args.search
        /\ monitor.fault = "none"
        /\ last_run.mode = "dataset"
        /\ ~last_run.dry_run
        /\ last_run.issue = "failed") =>
          \A b \in Range(last_run.unreported) :
              b \notin monitor.processed_ids => b \in Range(monitor.new_bills)

=============================================================================
